---------------------------- MODULE Spec2Model ----------------------------
(***************************************************************************)
(* A model of the rift window-management core: the notification layer's    *)
(* display-churn debouncer, the Master-Stack layout system, the layout     *)
(* engine's event/command dispatch and the Reactor's event loop with its   *)
(* display-topology quarantine.  Each component has its own specification  *)
(* over the shared variable list; a component's specification leaves the   *)
(* other components' variables at their initial values.                    *)
(***************************************************************************)
EXTENDS Integers, Sequences, FiniteSets, TLC

None == "none"

(***************************************************************************)
(* Generic helpers.                                                        *)
(***************************************************************************)
Range(s) == {s[i] : i \in DOMAIN s}

RECURSIVE SeqWithout(_, _)
SeqWithout(s, x) ==
    IF s = <<>> THEN <<>>
    ELSE IF Head(s) = x THEN SeqWithout(Tail(s), x)
    ELSE <<Head(s)>> \o SeqWithout(Tail(s), x)

Min(a, b) == IF a < b THEN a ELSE b
Max(a, b) == IF a > b THEN a ELSE b

(***************************************************************************)
(* NOTIFICATION LAYER: display-churn debouncing                            *)
(* src/src/actor/notification_center.rs                                    *)
(***************************************************************************)
VARIABLES
    display_churn_active,          \* Instance.display_churn_active
    display_churn_epoch,           \* Instance.display_churn_epoch
    display_churn_flags,           \* Instance.display_churn_flags (set of flag bits)
    display_topology_state,        \* Instance.display_topology_state: [fingerprint, hits]
    refresh_pending,               \* Instance.refresh_pending
    refresh_deferred_until_stable, \* Instance.refresh_deferred_until_stable
    last_sent_spaces,              \* Instance.last_sent_spaces: None or a space vector
    stabilize_timers,              \* callbacks queued by schedule_display_stabilization: [epoch, attempt]
    refresh_timers,                \* callbacks queued by schedule_screen_refresh_after: attempt numbers
    nc_last                        \* history: the handler that ran last and the events it sent

ncVars == <<display_churn_active, display_churn_epoch, display_churn_flags,
            display_topology_state, refresh_pending, refresh_deferred_until_stable,
            last_sent_spaces, stabilize_timers, refresh_timers, nc_last>>

\* Master-Stack layout system (declared here, described in its own section)
VARIABLES
    ms_layouts,    \* inner.layout_roots and the tree under each root, with inner's selection
    ms_settings,   \* MasterStackLayoutSystem.settings
    ms_last        \* history: the kind of operation that ran last

msVars == <<ms_layouts, ms_settings, ms_last>>

\* Layout engine (declared here, described in its own section)
VARIABLES
    eng,           \* the LayoutEngine's fields
    eng_panicked,  \* an expect(..) has failed: the thread is unwinding
    eng_last       \* history: the kind of call that ran last, and a command's space

engVars == <<eng, eng_panicked, eng_last>>

\* Reactor (declared here, described in its own section)
VARIABLES
    rx,            \* the Reactor's fields: screens, active spaces, window tables, topology manager
    rx_queue,      \* the events channel, oldest first: "Event" or "Query" items
    rx_busy,       \* the loop has dequeued the head of rx_queue and is handling it
    rx_last        \* history: the item handled last, what it sent, a commit's record, a reply

rxVars == <<rx, rx_queue, rx_busy, rx_last>>

\* Window-to-space resolution (declared here, described in its own section)
VARIABLES
    bsf            \* space_manager.screens, the frame of the last best_space_for_frame call, its result

bsfVars == <<bsf>>

\* Scrolling layout system (declared here, described in its own section)
VARIABLES
    sc,            \* one layout's LayoutState
    sc_settings,   \* ScrollingLayoutSystem.settings
    sc_last        \* history: the operation that ran last and what it returned

scVars == <<sc, sc_settings, sc_last>>

\* Display history (declared here, described in its own section)
VARIABLES
    dh,            \* space_manager.screens with display UUIDs, the engine's display tables and per-space state
    dh_last        \* history: the handler that ran last, the space each display last showed

dhVars == <<dh, dh_last>>

\* Tiled windows in scrolling layouts (declared here, described in their own section)
VARIABLES
    tl,            \* one space: its workspaces' scrolling layouts, window assignment, floating set, focus
    tl_last        \* history: the event or command handled last

tlVars == <<tl, tl_last>>

\* Drag sessions (declared here, described in their own section)
VARIABLES
    dg,            \* drag_manager, the dragged windows' frames, the topology state, the trees of two spaces
    dg_last        \* history: the event handled last and what its handler did

dgVars == <<dg, dg_last>>

\* Layout responses and workspace switches (declared here, described in their own section)
VARIABLES
    lr,            \* workspace_switch_manager, refocus state, active spaces, visible windows, drag and topology state
    lr_last        \* history: the event handled last and the raise requests it sent

lrVars == <<lr, lr_last>>

vars == <<ncVars, msVars, engVars, rxVars, bsfVars, scVars, dhVars, tlVars, dgVars, lrVars>>

\* Each component runs on its own: a step of one leaves the others' state alone.
NotNcVars == <<msVars, engVars, rxVars, bsfVars, scVars, dhVars, tlVars, dgVars, lrVars>>
NotMsVars == <<ncVars, engVars, rxVars, bsfVars, scVars, dhVars, tlVars, dgVars, lrVars>>
NotEngVars == <<ncVars, msVars, rxVars, bsfVars, scVars, dhVars, tlVars, dgVars, lrVars>>
NotRxVars == <<ncVars, msVars, engVars, bsfVars, scVars, dhVars, tlVars, dgVars, lrVars>>
NotScVars == <<ncVars, msVars, engVars, rxVars, bsfVars, dhVars, tlVars, dgVars, lrVars>>
NotBsfVars == <<ncVars, msVars, engVars, rxVars, scVars, dhVars, tlVars, dgVars, lrVars>>
NotDhVars == <<ncVars, msVars, engVars, rxVars, bsfVars, scVars, tlVars, dgVars, lrVars>>
NotTlVars == <<ncVars, msVars, engVars, rxVars, bsfVars, scVars, dhVars, dgVars, lrVars>>
NotDgVars == <<ncVars, msVars, engVars, rxVars, bsfVars, scVars, dhVars, tlVars, lrVars>>
NotLrVars == <<ncVars, msVars, engVars, rxVars, bsfVars, scVars, dhVars, tlVars, dgVars>>

\* Program constants of the notification layer.
REFRESH_MAX_RETRIES == 10
DISPLAY_STABILIZE_MAX_ATTEMPTS == 25
DISPLAY_STABLE_REQUIRED_HITS == 2
U8Max == 255

\* Bounds of the notification model.
MaxEpoch == 3            \* display_churn_epoch is not advanced past this value
AttemptCap == 3          \* a stabilization check is retried only below this attempt number
RefreshAttemptCap == 1   \* a screen refresh is retried only below this attempt number

ReconfigFlags == {"add"}
Fingerprints == {"fpA", "fpB"}
\* What ScreenCache::refresh can report to collect_state.
CollectOutcomes == {"unavailable", "empty"} \cup Fingerprints
SpaceVectors == {"v1", "v2"}

\* Option<DisplayTopologyState>::None
NoTopologyState == [fingerprint |-> None, hits |-> 0]

\* u8::saturating_add(1)
SaturatingInc(h) == IF h >= U8Max THEN U8Max ELSE h + 1

\* attempt_finish_display_churn's and finish_display_churn's staleness test on the epoch.
EpochIsCurrent_AlwaysTrue(expected_epoch) == TRUE
EpochIsCurrent(expected_epoch) == expected_epoch = display_churn_epoch

NcInitPart ==
    /\ display_churn_active = FALSE
    /\ display_churn_epoch = 0
    /\ display_churn_flags = {}
    /\ display_topology_state = NoTopologyState
    /\ refresh_pending = FALSE
    /\ refresh_deferred_until_stable = FALSE
    /\ last_sent_spaces = None
    /\ stabilize_timers = {}
    /\ refresh_timers = {}
    /\ nc_last = [op |-> "init", expected_epoch |-> 0, attempt |-> 0,
                  stale |-> FALSE, sent |-> <<>>]

NcLast(op, e, a, stale, sent) ==
    [op |-> op, expected_epoch |-> e, attempt |-> a, stale |-> stale, sent |-> sent]

\* schedule_screen_refresh_after(delay, attempt), as a relation on
\* (refresh_pending, refresh_deferred_until_stable, refresh_timers), given the
\* value `active` of display_churn_active at the call.
ScheduleScreenRefreshAfter(active, attempt, pending, deferred, timers) ==
    IF attempt = 0 /\ active
    THEN [pending |-> pending, deferred |-> TRUE, timers |-> timers]
    ELSE IF attempt = 0 /\ pending
    THEN [pending |-> TRUE, deferred |-> deferred, timers |-> timers]
    ELSE [pending |-> TRUE, deferred |-> deferred, timers |-> timers \cup {attempt}]

\* handle_display_reconfig_event announcing the churn at every callback
HandleDisplayReconfigEvent_AlwaysBegin(flags) ==
    /\ display_churn_epoch < MaxEpoch
    /\ display_churn_active' = TRUE
    /\ display_churn_flags' = display_churn_flags \cup flags
    /\ display_churn_epoch' = display_churn_epoch + 1
    /\ display_topology_state' = NoTopologyState
    /\ last_sent_spaces' = None
    /\ stabilize_timers' = stabilize_timers \cup
            {[epoch |-> display_churn_epoch + 1, attempt |-> 0]}
    /\ nc_last' = NcLast("reconfig", display_churn_epoch + 1, 0, FALSE,
                         <<"DisplayChurnBegin">>)
    /\ UNCHANGED <<refresh_pending, refresh_deferred_until_stable, refresh_timers>>
    /\ UNCHANGED NotNcVars

\* handle_display_reconfig_event
HandleDisplayReconfigEvent(flags) ==
    /\ display_churn_epoch < MaxEpoch
    /\ display_churn_active' = TRUE
    /\ display_churn_flags' = display_churn_flags \cup flags
    /\ display_churn_epoch' = display_churn_epoch + 1
    /\ display_topology_state' = NoTopologyState
    /\ last_sent_spaces' = None
    /\ stabilize_timers' = stabilize_timers \cup
            {[epoch |-> display_churn_epoch + 1, attempt |-> 0]}
    /\ nc_last' = NcLast("reconfig", display_churn_epoch + 1, 0, FALSE,
                         IF display_churn_active THEN <<>> ELSE <<"DisplayChurnBegin">>)
    /\ UNCHANGED <<refresh_pending, refresh_deferred_until_stable, refresh_timers>>
    /\ UNCHANGED NotNcVars

\* finish_display_churn, reached from attempt_finish_display_churn with the callback
\* `t` consumed; `keep` is the set of stabilization callbacks that stay queued.
FinishDisplayChurn(t, keep) ==
    IF ~EpochIsCurrent(t.epoch) \/ ~display_churn_active
    THEN /\ stabilize_timers' = keep
         /\ nc_last' = NcLast("attempt_finish", t.epoch, t.attempt,
                              t.epoch # display_churn_epoch, <<>>)
         /\ UNCHANGED <<display_churn_active, display_churn_epoch, display_churn_flags,
                        display_topology_state, refresh_pending,
                        refresh_deferred_until_stable, last_sent_spaces, refresh_timers>>
    ELSE LET r == ScheduleScreenRefreshAfter(FALSE, 0, refresh_pending, FALSE, refresh_timers)
         IN  /\ display_churn_epoch < MaxEpoch
             /\ display_churn_active' = FALSE
             /\ display_churn_epoch' = display_churn_epoch + 1
             /\ display_churn_flags' = {}
             /\ display_topology_state' = NoTopologyState
             /\ refresh_deferred_until_stable' = r.deferred
             /\ refresh_pending' = r.pending
             /\ refresh_timers' = r.timers
             /\ stabilize_timers' = keep
             /\ nc_last' = NcLast("attempt_finish", t.epoch, t.attempt,
                                  t.epoch # display_churn_epoch, <<"DisplayChurnEnd">>)
             /\ UNCHANGED last_sent_spaces

\* schedule_display_stabilization_retry(expected_epoch, attempt + 1): the callback `t` is
\* replaced by its successor, as long as the attempt number is below cap.  attempt is a
\* u8: at 255 the addition overflows, which wraps to 0 in a build without overflow checks
\* and panics in a build with them; the panic ends the process with its callbacks.
ScheduleRetry(t, keep, topo, cap) ==
    /\ t.attempt < cap
    /\ \/ /\ t.attempt < U8Max
          /\ stabilize_timers' = keep \cup {[epoch |-> t.epoch, attempt |-> t.attempt + 1]}
          /\ nc_last' = NcLast("attempt_finish", t.epoch, t.attempt,
                               t.epoch # display_churn_epoch, <<>>)
       \/ /\ t.attempt = U8Max
          /\ stabilize_timers' = keep \cup {[epoch |-> t.epoch, attempt |-> 0]}
          /\ nc_last' = NcLast("attempt_finish", t.epoch, t.attempt,
                               t.epoch # display_churn_epoch, <<>>)
       \/ /\ t.attempt = U8Max
          /\ stabilize_timers' = {}
          /\ nc_last' = NcLast("overflow", t.epoch, t.attempt,
                               t.epoch # display_churn_epoch, <<>>)
    /\ display_topology_state' = topo
    /\ UNCHANGED <<display_churn_active, display_churn_epoch, display_churn_flags,
                   refresh_pending, refresh_deferred_until_stable, last_sent_spaces,
                   refresh_timers>>

\* retry_display_stabilization, and the forced finish_display_churn of its callers
\* when the attempts are used up.
RetryOrFinish(t, keep, topo, cap) ==
    IF t.attempt < DISPLAY_STABILIZE_MAX_ATTEMPTS
    THEN ScheduleRetry(t, keep, topo, cap)
    ELSE FinishDisplayChurn(t, keep)

\* attempt_finish_display_churn(expected_epoch, attempt): a queued stabilization
\* callback fires.  `seen` is what collect_state reports and `quiet` what
\* windowserver_quiet_for_us answers; cap bounds the attempt numbers looked at.
AttemptFinishDisplayChurn(t, seen, quiet, cap) ==
    LET keep == stabilize_timers \ {t}
        same == display_topology_state.fingerprint = seen
        hits == IF same THEN SaturatingInc(display_topology_state.hits) ELSE 1
    IN
    /\ t \in stabilize_timers
    /\ IF ~EpochIsCurrent(t.epoch) \/ ~display_churn_active
       THEN /\ stabilize_timers' = keep
            /\ nc_last' = NcLast("attempt_finish", t.epoch, t.attempt,
                                 t.epoch # display_churn_epoch, <<>>)
            /\ UNCHANGED <<display_churn_active, display_churn_epoch, display_churn_flags,
                           display_topology_state, refresh_pending,
                           refresh_deferred_until_stable, last_sent_spaces, refresh_timers>>
       ELSE IF seen \in {"unavailable", "empty"}
       THEN RetryOrFinish(t, keep, display_topology_state, cap)
       ELSE IF ~same
       THEN ScheduleRetry(t, keep, [fingerprint |-> seen, hits |-> 1], cap)
       ELSE IF hits >= DISPLAY_STABLE_REQUIRED_HITS /\ quiet
       THEN FinishDisplayChurn(t, keep)
       ELSE IF t.attempt < DISPLAY_STABILIZE_MAX_ATTEMPTS
       THEN ScheduleRetry(t, keep, [fingerprint |-> seen, hits |-> hits], cap)
       ELSE FinishDisplayChurn(t, keep)
    /\ UNCHANGED NotNcVars

\* process_screen_refresh(attempt, true): a queued screen-refresh callback fires.
\* `seen` is what collect_state reports, `complete` whether every screen has a space.
ProcessScreenRefresh(attempt, seen, complete) ==
    /\ attempt \in refresh_timers
    /\ LET keep == refresh_timers \ {attempt}
           retry == attempt < REFRESH_MAX_RETRIES
           r == ScheduleScreenRefreshAfter(display_churn_active, attempt + 1,
                                           refresh_pending, refresh_deferred_until_stable, keep)
       IN
       IF display_churn_active
       THEN /\ refresh_deferred_until_stable' = TRUE
            /\ refresh_pending' = FALSE
            /\ refresh_timers' = keep
            /\ nc_last' = NcLast("refresh", 0, attempt, FALSE, <<>>)
       ELSE IF (seen \in {"unavailable", "empty"} \/ ~complete) /\ retry
       THEN /\ attempt < RefreshAttemptCap
            /\ refresh_deferred_until_stable' = r.deferred
            /\ refresh_pending' = r.pending
            /\ refresh_timers' = r.timers
            /\ nc_last' = NcLast("refresh", 0, attempt, FALSE, <<>>)
       ELSE IF seen \in {"unavailable", "empty"}
       THEN /\ refresh_pending' = FALSE
            /\ refresh_timers' = keep
            /\ nc_last' = NcLast("refresh", 0, attempt, FALSE, <<>>)
            /\ UNCHANGED refresh_deferred_until_stable
       ELSE /\ refresh_pending' = FALSE
            /\ refresh_timers' = keep
            /\ nc_last' = NcLast("refresh", 0, attempt, FALSE, <<"ScreenParametersChanged">>)
            /\ UNCHANGED refresh_deferred_until_stable
    /\ UNCHANGED <<display_churn_active, display_churn_epoch, display_churn_flags,
                   display_topology_state, last_sent_spaces, stabilize_timers>>
    /\ UNCHANGED NotNcVars

\* handle_screen_changed_event for NSWorkspaceActiveSpaceDidChangeNotification:
\* send_current_space. `spaces` is the vector collect_state reports (None: no state).
SendCurrentSpace(spaces) ==
    /\ IF refresh_pending \/ display_churn_active \/ spaces = None
            \/ last_sent_spaces = spaces
       THEN /\ nc_last' = NcLast("space", 0, 0, FALSE, <<>>)
            /\ UNCHANGED last_sent_spaces
       ELSE /\ last_sent_spaces' = spaces
            /\ nc_last' = NcLast("space", 0, 0, FALSE, <<"SpaceChanged">>)
    /\ UNCHANGED <<display_churn_active, display_churn_epoch, display_churn_flags,
                   display_topology_state, refresh_pending, refresh_deferred_until_stable,
                   stabilize_timers, refresh_timers>>
    /\ UNCHANGED NotNcVars

NcNext ==
    \/ \E flags \in SUBSET ReconfigFlags : HandleDisplayReconfigEvent(flags)
    \/ \E t \in stabilize_timers, seen \in CollectOutcomes, quiet \in BOOLEAN :
            AttemptFinishDisplayChurn(t, seen, quiet, AttemptCap)
    \/ \E a \in refresh_timers, seen \in CollectOutcomes, complete \in BOOLEAN :
            ProcessScreenRefresh(a, seen, complete)
    \/ \E spaces \in SpaceVectors \cup {None} : SendCurrentSpace(spaces)

\* One display-reconfiguration callback, after which no other arrives, and the
\* stabilization checks that follow it with the attempt number at its full width.
StReconfig(flags) ==
    /\ display_churn_epoch = 0
    /\ HandleDisplayReconfigEvent(flags)

StCallback(t, seen, quiet) ==
    AttemptFinishDisplayChurn(t, seen, quiet, U8Max + 1)

StNext ==
    \/ \E flags \in SUBSET ReconfigFlags : StReconfig(flags)
    \/ \E t \in stabilize_timers, seen \in CollectOutcomes, quiet \in BOOLEAN :
            StCallback(t, seen, quiet)

(***************************************************************************)
(* MASTER-STACK LAYOUT SYSTEM                                              *)
(* src/src/layout_engine/systems/master_stack.rs                           *)
(*                                                                         *)
(* A layout is the list of its root's children.  A child is a container    *)
(* (kind "c") holding a list of windows, or a window leaf placed directly   *)
(* under the root (kind "w").  The tree arena and TraditionalLayoutSystem   *)
(* (`inner`) are not part of the sources at hand: their operations are     *)
(* modelled as the tree edits their names and call sites describe.         *)
(***************************************************************************)
MaxMasterCount == 2     \* settings.master_count is not raised past this value

MsWindows == {"w1", "w2", "w3"}
\* WindowId's derived ordering (pid first, then index).
MsWindowOrder == <<"w1", "w2", "w3">>
MsPids == {"p1", "p2"}
MsPidOf(w) == IF w = "w3" THEN "p2" ELSE "p1"
LayoutIds == {"la", "lb"}
\* One side per orientation and per container order (Right and Top mirror these).
Sides == {"Left", "Bottom"}
Placements == {"Master", "Stack", "Focused"}
Directions == {"Left", "Right", "Up", "Down"}

Container(wins) == [kind |-> "c", wins |-> wins]
Leaf(w) == [kind |-> "w", wins |-> <<w>>]
NoLayout == [live |-> FALSE, kids |-> <<>>, sel |-> None]

\* Sequence helpers for the tree edits.
InsertAt(s, i, x) == SubSeq(s, 1, i - 1) \o <<x>> \o SubSeq(s, i, Len(s))
IndexOf(s, x) == IF \E i \in DOMAIN s : s[i] = x
                 THEN CHOOSE i \in DOMAIN s : s[i] = x ELSE 0
SwapIn(s, a, b) == [i \in DOMAIN s |-> IF s[i] = a THEN b ELSE IF s[i] = b THEN a ELSE s[i]]
SeqKeep(s, keep) == SelectSeq(s, LAMBDA x : x \in keep)

RECURSIVE Flatten(_)
Flatten(kids) == IF kids = <<>> THEN <<>> ELSE Head(kids).wins \o Flatten(Tail(kids))

\* master_first
MasterFirst(S) == S.master_side \in {"Left", "Top"}
\* container_orientation
ContainerOrientation(S) == IF S.master_side \in {"Left", "Right"} THEN "Vertical" ELSE "Horizontal"
DirOrientation(d) == IF d \in {"Left", "Right"} THEN "Horizontal" ELSE "Vertical"

\* all_windows_in_layout
AllWindowsInLayout(L) == Flatten(L.kids)
\* inner.contains_window
ContainsWindow(L, w) == w \in Range(AllWindowsInLayout(L))

\* The structure test of ensure_structure (containers of this model are always flat).
ValidStructure(L) == Len(L.kids) = 2 /\ \A i \in 1..2 : L.kids[i].kind = "c"

MasterIdx(first) == IF first THEN 1 ELSE 2
StackIdx(first) == IF first THEN 2 ELSE 1
MasterOf(L, S) == L.kids[MasterIdx(MasterFirst(S))].wins
StackOf(L, S) == L.kids[StackIdx(MasterFirst(S))].wins

\* The layout with the given contents of the two containers.
WithContainers(L, S, m, st) ==
    [L EXCEPT !.kids = IF MasterFirst(S) THEN <<Container(m), Container(st)>>
                       ELSE <<Container(st), Container(m)>>]

\* windows_in_layout_by_container_with_order, falling back to all_windows_in_layout
\* where the code's callers do.
WindowsByContainer(L, first) ==
    IF ValidStructure(L)
    THEN L.kids[MasterIdx(first)].wins \o L.kids[StackIdx(first)].wins
    ELSE AllWindowsInLayout(L)

\* enforce_master_count with the overflow pushed to the back of the stack
EnforceMasterCount_DemoteToBack(L, S) ==
    LET m0 == MasterOf(L, S)
        s0 == StackOf(L, S)
        desired == S.master_count
        pull == m0 = <<>> /\ s0 # <<>>
        m1 == IF pull THEN <<Head(s0)>> ELSE m0
        s1 == IF pull THEN Tail(s0) ELSE s0
        needed == Min(desired - Len(m1), Len(s1))
    IN  IF Len(m1) > desired
        THEN WithContainers(L, S, SubSeq(m1, 1, desired),
                            s1 \o SubSeq(m1, desired + 1, Len(m1)))
        ELSE IF Len(m1) < desired
        THEN WithContainers(L, S, m1 \o SubSeq(s1, 1, needed),
                            SubSeq(s1, needed + 1, Len(s1)))
        ELSE WithContainers(L, S, m1, s1)

\* enforce_master_count
EnforceMasterCount(L, S) ==
    LET m0 == MasterOf(L, S)
        s0 == StackOf(L, S)
        desired == S.master_count
        pull == m0 = <<>> /\ s0 # <<>>
        m1 == IF pull THEN <<Head(s0)>> ELSE m0
        s1 == IF pull THEN Tail(s0) ELSE s0
        needed == Min(desired - Len(m1), Len(s1))
    IN  IF Len(m1) > desired
        THEN WithContainers(L, S, SubSeq(m1, 1, desired),
                            SubSeq(m1, desired + 1, Len(m1)) \o s1)
        ELSE IF Len(m1) < desired
        THEN WithContainers(L, S, m1 \o SubSeq(s1, 1, needed),
                            SubSeq(s1, needed + 1, Len(s1)))
        ELSE WithContainers(L, S, m1, s1)

\* rebuild_layout_with_windows
RebuildLayoutWithWindows(L, S, windows) ==
    LET k == Min(S.master_count, Len(windows))
    IN  EnforceMasterCount(
            WithContainers(L, S, SubSeq(windows, 1, k), SubSeq(windows, k + 1, Len(windows))),
            S)

\* ensure_structure
EnsureStructure(L, S) ==
    IF ValidStructure(L) THEN L
    ELSE RebuildLayoutWithWindows(L, S, WindowsByContainer(L, MasterFirst(S)))

\* normalize_layout
NormalizeLayout(L, S) == EnforceMasterCount(EnsureStructure(L, S), S)

\* focused_container: "master", "stack" or None
FocusedContainer(L, S) ==
    IF L.sel = None THEN None
    ELSE IF L.sel \in Range(MasterOf(L, S)) THEN "master"
    ELSE IF L.sel \in Range(StackOf(L, S)) THEN "stack"
    ELSE None

\* add_window_after_selection with the new leaf pushed to the back of its container
AddWindowAfterSelection_Back(L0, S, wid) ==
    LET L == EnsureStructure(L0, S)
        m == MasterOf(L, S)
        st == StackOf(L, S)
        target == IF Len(m) < S.master_count \/ S.new_window_placement # "Stack"
                  THEN "master" ELSE "stack"
        added == IF target = "master" THEN WithContainers(L, S, Append(m, wid), st)
                 ELSE WithContainers(L, S, m, Append(st, wid))
    IN  EnforceMasterCount([added EXCEPT !.sel = wid], S)

\* add_window_after_selection
AddWindowAfterSelection(L0, S, wid) ==
    LET L == EnsureStructure(L0, S)
        m == MasterOf(L, S)
        st == StackOf(L, S)
        fc == FocusedContainer(L, S)
        target == IF Len(m) < S.master_count THEN "master"
                  ELSE IF S.new_window_placement = "Master" THEN "master"
                  ELSE IF S.new_window_placement = "Stack" THEN "stack"
                  ELSE IF fc = None THEN "master" ELSE fc
        added == IF target = "master" THEN WithContainers(L, S, <<wid>> \o m, st)
                 ELSE WithContainers(L, S, m, <<wid>> \o st)
    IN  EnforceMasterCount([added EXCEPT !.sel = wid], S)

\* The root's children after the leaves of the windows `gone` are removed.  With `cull`
\* a container emptied by the removal is removed with its last leaf.
RECURSIVE KidsWithout(_, _, _)
KidsWithout(kids, gone, cull) ==
    IF kids = <<>> THEN <<>>
    ELSE LET k == Head(kids)
             left == SeqKeep(k.wins, MsWindows \ gone)
             rest == KidsWithout(Tail(kids), gone, cull)
         IN  IF left = k.wins THEN <<k>> \o rest
             ELSE IF k.kind = "w" \/ (cull /\ left = <<>>) THEN rest
             ELSE <<Container(left)>> \o rest

\* inner.remove_window / inner.remove_windows_for_app on one layout: the leaves go, and
\* a selection that pointed at a removed window falls on `pref` if that is still there.
InnerRemove(L, gone, pref, cull) ==
    LET kids == KidsWithout(L.kids, gone, cull)
    IN  [L EXCEPT !.kids = kids,
                  !.sel = IF L.sel \in gone
                          THEN (IF pref \in Range(Flatten(kids)) THEN pref ELSE None)
                          ELSE L.sel]

\* inner.move_selection along the container's axis: the selected leaf trades places
\* with its neighbour in the same container, if it has one on that side.
InnerMoveSelection(L, S, forward) ==
    LET fc == FocusedContainer(L, S)
        c == IF fc = "master" THEN MasterOf(L, S) ELSE StackOf(L, S)
        i == IndexOf(c, L.sel)
        j == IF forward THEN i + 1 ELSE i - 1
    IN  IF fc = None \/ j < 1 \/ j > Len(c) THEN L
        ELSE IF fc = "master" THEN WithContainers(L, S, SwapIn(c, c[i], c[j]), StackOf(L, S))
        ELSE WithContainers(L, S, MasterOf(L, S), SwapIn(c, c[i], c[j]))

\* inner.swap_windows
InnerSwapWindows(L, a, b) ==
    [L EXCEPT !.kids = [i \in DOMAIN L.kids |->
                            [L.kids[i] EXCEPT !.wins = SwapIn(L.kids[i].wins, a, b)]]]

\* The children of the root after `wid` is inserted right after the leaf of `after`;
\* without such a leaf the new leaf is appended under the root.
InsertAfter(kids, after, wid) ==
    IF \E i \in DOMAIN kids : after \in Range(kids[i].wins)
    THEN LET i == CHOOSE i \in DOMAIN kids : after \in Range(kids[i].wins)
         IN  IF kids[i].kind = "c"
             THEN [kids EXCEPT ![i].wins = InsertAt(kids[i].wins, IndexOf(kids[i].wins, after) + 1, wid)]
             ELSE InsertAt(kids, i + 1, Leaf(wid))
    ELSE Append(kids, Leaf(wid))

\* promote_to_master
PromoteToMaster(L0, S) ==
    LET L == EnsureStructure(L0, S)
        m == MasterOf(L, S)
        st == StackOf(L, S)
        wid == L.sel
    IN  IF wid = None THEN L
        ELSE IF m # <<>> /\ Head(m) = wid THEN L
        ELSE IF wid \in Range(st)
        THEN EnforceMasterCount(WithContainers(L, S, <<wid>> \o m, SeqWithout(st, wid)), S)
        ELSE EnforceMasterCount(L, S)

\* focused_window_in_container: the container's remembered selection, else its first
\* child.  The remembered selection is the layout's selection when that is in the
\* container; otherwise it may be any of the container's windows.
FocusedCandidates(L, wins) ==
    IF wins = <<>> THEN {None}
    ELSE IF L.sel \in Range(wins) THEN {L.sel}
    ELSE Range(wins)

\* swap_master_stack, with the two focused windows it found
SwapMasterStack(L0, S, master_wid, stack_wid) ==
    LET L == EnsureStructure(L0, S)
    IN  IF master_wid = None \/ stack_wid = None THEN L
        ELSE InnerSwapWindows(L, master_wid, stack_wid)

TowardsMaster(S, d) ==
    \/ S.master_side = "Left" /\ d = "Left"
    \/ S.master_side = "Right" /\ d = "Right"
    \/ S.master_side = "Top" /\ d = "Up"
    \/ S.master_side = "Bottom" /\ d = "Down"
TowardsStack(S, d) ==
    \/ S.master_side = "Left" /\ d = "Right"
    \/ S.master_side = "Right" /\ d = "Left"
    \/ S.master_side = "Top" /\ d = "Down"
    \/ S.master_side = "Bottom" /\ d = "Up"

\* move_selection
MoveSelection(L0, S, d, master_wid, stack_wid) ==
    LET L == EnsureStructure(L0, S)
        fc == FocusedContainer(L, S)
    IN  IF fc = None THEN L
        ELSE IF TowardsMaster(S, d) /\ fc = "stack"
        THEN NormalizeLayout(PromoteToMaster(L, S), S)
        ELSE IF TowardsStack(S, d) /\ fc = "master"
        THEN (IF master_wid # None /\ stack_wid # None
              THEN NormalizeLayout(SwapMasterStack(L, S, master_wid, stack_wid), S)
              ELSE L)
        ELSE IF DirOrientation(d) # ContainerOrientation(S) THEN L
        ELSE LET moved == InnerMoveSelection(L, S, d \in {"Right", "Down"})
             IN  IF moved # L THEN NormalizeLayout(moved, S) ELSE L

\* The merge loop of set_windows_for_app over the sorted desired and current windows.
RECURSIVE SetWindowsLoop(_, _, _, _)
SetWindowsLoop(L, S, desired, current) ==
    IF desired = <<>> /\ current = <<>> THEN L
    ELSE IF desired # <<>> /\ current # <<>> /\ Head(desired) = Head(current)
    THEN SetWindowsLoop(L, S, Tail(desired), Tail(current))
    ELSE IF desired # <<>> /\ (current = <<>>
                \/ IndexOf(MsWindowOrder, Head(desired)) < IndexOf(MsWindowOrder, Head(current)))
    THEN SetWindowsLoop(AddWindowAfterSelection(L, S, Head(desired)), S, Tail(desired), current)
    ELSE SetWindowsLoop(InnerRemove(L, {Head(current)}, None, FALSE), S, desired, Tail(current))

\* set_windows_for_app
SetWindowsForApp(L0, S, pid, desired) ==
    LET L == EnsureStructure(L0, S)
        here == Range(AllWindowsInLayout(L))
        current == SeqKeep(MsWindowOrder, {w \in here : MsPidOf(w) = pid})
    IN  EnforceMasterCount(SetWindowsLoop(L, S, SeqKeep(MsWindowOrder, desired), current), S)

MsSettingsSpace ==
    [master_count : 1..MaxMasterCount, master_side : Sides, new_window_placement : Placements]

\* The history keeps the operation's name for the cross-layout move and for the
\* operations that change settings; the other mutations are recorded as "mutation".
MsLast(op, a, b) ==
    [op |-> IF op \in {"new", "move_selection_to_layout_after_selection",
                       "adjust_master_count", "update_settings"}
            THEN op ELSE "mutation"]

\* MasterStackLayoutSystem::new(settings)
MsInitPart(settings) ==
    /\ ms_layouts = [l \in LayoutIds |-> NoLayout]
    /\ ms_settings = settings
    /\ ms_last = MsLast("new", None, None)

Live(l) == ms_layouts[l].live

\* create_layout
MsCreateLayout(l) ==
    /\ ~Live(l)
    /\ ms_layouts' = [ms_layouts EXCEPT ![l] =
            [live |-> TRUE, kids |-> <<Container(<<>>), Container(<<>>)>>, sel |-> None]]
    /\ ms_last' = MsLast("create_layout", l, None)
    /\ UNCHANGED NotMsVars
    /\ UNCHANGED ms_settings

\* remove_layout
MsRemoveLayout(l) ==
    /\ Live(l)
    /\ ms_layouts' = [ms_layouts EXCEPT ![l] = NoLayout]
    /\ ms_last' = MsLast("remove_layout", l, None)
    /\ UNCHANGED NotMsVars
    /\ UNCHANGED ms_settings

\* LayoutSystem::add_window_after_selection
MsAddWindowAfterSelection(l, wid) ==
    /\ Live(l)
    /\ \A k \in LayoutIds : ~ContainsWindow(ms_layouts[k], wid)
    /\ ms_layouts' = [ms_layouts EXCEPT ![l] = AddWindowAfterSelection(@, ms_settings, wid)]
    /\ ms_last' = MsLast("add_window_after_selection", l, None)
    /\ UNCHANGED NotMsVars
    /\ UNCHANGED ms_settings

\* The layouts holding one of `gone` lose those leaves and are normalized.
MsRemoveEverywhere(gone, pref, cull) ==
    [l \in LayoutIds |->
        IF Live(l) /\ Range(AllWindowsInLayout(ms_layouts[l])) \cap gone # {}
        THEN NormalizeLayout(InnerRemove(ms_layouts[l], gone, pref, cull), ms_settings)
        ELSE ms_layouts[l]]

\* Where inner's selection can fall when the leaves of `gone` are removed: on nothing, or
\* on a window that stays in a layout whose selection was removed.
PrefChoices(gone) ==
    {None} \cup {w \in MsWindows \ gone :
                    \E l \in LayoutIds : /\ ms_layouts[l].sel \in gone
                                         /\ ContainsWindow(ms_layouts[l], w)}

\* LayoutSystem::remove_window
MsRemoveWindow(wid, pref, cull) ==
    /\ ms_layouts' = MsRemoveEverywhere({wid}, pref, cull)
    /\ ms_last' = MsLast("remove_window", None, None)
    /\ UNCHANGED NotMsVars
    /\ UNCHANGED ms_settings

\* LayoutSystem::remove_windows_for_app
MsRemoveWindowsForApp(pid, pref, cull) ==
    /\ ms_layouts' = MsRemoveEverywhere({w \in MsWindows : MsPidOf(w) = pid}, pref, cull)
    /\ ms_last' = MsLast("remove_windows_for_app", None, None)
    /\ UNCHANGED NotMsVars
    /\ UNCHANGED ms_settings

\* LayoutSystem::set_windows_for_app
MsSetWindowsForApp(l, pid, desired) ==
    /\ Live(l)
    /\ \A k \in LayoutIds \ {l}, w \in desired : ~ContainsWindow(ms_layouts[k], w)
    /\ ms_layouts' = [ms_layouts EXCEPT ![l] = SetWindowsForApp(@, ms_settings, pid, desired)]
    /\ ms_last' = MsLast("set_windows_for_app", l, None)
    /\ UNCHANGED NotMsVars
    /\ UNCHANGED ms_settings

\* LayoutSystem::select_window
MsSelectWindow(l, wid) ==
    /\ Live(l)
    /\ ContainsWindow(ms_layouts[l], wid)
    /\ ms_layouts' = [ms_layouts EXCEPT ![l].sel = wid]
    /\ ms_last' = MsLast("select_window", l, None)
    /\ UNCHANGED NotMsVars
    /\ UNCHANGED ms_settings

\* LayoutSystem::move_selection
MsMoveSelection(l, d) ==
    /\ Live(l)
    /\ LET L == EnsureStructure(ms_layouts[l], ms_settings)
       IN  \E mw \in FocusedCandidates(L, MasterOf(L, ms_settings)),
              sw \in FocusedCandidates(L, StackOf(L, ms_settings)) :
                ms_layouts' = [ms_layouts EXCEPT ![l] = MoveSelection(@, ms_settings, d, mw, sw)]
    /\ ms_last' = MsLast("move_selection", l, None)
    /\ UNCHANGED NotMsVars
    /\ UNCHANGED ms_settings

\* LayoutSystem::move_selection_to_layout_after_selection: inner moves the selected
\* leaf of from_layout behind the selection of to_layout; then ensure_structure runs
\* on both layouts.
MsMoveSelectionToLayoutAfterSelection(from_layout, to_layout, pref, cull) ==
    /\ Live(from_layout) /\ Live(to_layout) /\ from_layout # to_layout
    /\ LET F == ms_layouts[from_layout]
           T == ms_layouts[to_layout]
           wid == F.sel
       IN  /\ wid # None
           /\ ~ContainsWindow(T, wid)
           /\ ms_layouts' = [ms_layouts EXCEPT
                ![from_layout] = EnsureStructure(InnerRemove(F, {wid}, pref, cull), ms_settings),
                ![to_layout] = EnsureStructure(
                    [T EXCEPT !.kids = InsertAfter(T.kids, T.sel, wid), !.sel = wid],
                    ms_settings)]
    /\ ms_last' = MsLast("move_selection_to_layout_after_selection", from_layout, to_layout)
    /\ UNCHANGED NotMsVars
    /\ UNCHANGED ms_settings

\* promote_to_master
MsPromoteToMaster(l) ==
    /\ Live(l)
    /\ ms_layouts' = [ms_layouts EXCEPT ![l] = PromoteToMaster(@, ms_settings)]
    /\ ms_last' = MsLast("promote_to_master", l, None)
    /\ UNCHANGED NotMsVars
    /\ UNCHANGED ms_settings

\* swap_master_stack
MsSwapMasterStack(l) ==
    /\ Live(l)
    /\ LET L == EnsureStructure(ms_layouts[l], ms_settings)
       IN  \E mw \in FocusedCandidates(L, MasterOf(L, ms_settings)),
              sw \in FocusedCandidates(L, StackOf(L, ms_settings)) :
                ms_layouts' = [ms_layouts EXCEPT ![l] = SwapMasterStack(@, ms_settings, mw, sw)]
    /\ ms_last' = MsLast("swap_master_stack", l, None)
    /\ UNCHANGED NotMsVars
    /\ UNCHANGED ms_settings

\* adjust_master_count
MsAdjustMasterCount(delta) ==
    LET next == Max(ms_settings.master_count + delta, 1)
        S == [ms_settings EXCEPT !.master_count = next]
    IN  /\ next <= MaxMasterCount
        /\ ms_settings' = S
        /\ ms_layouts' = IF next = ms_settings.master_count THEN ms_layouts
                         ELSE [l \in LayoutIds |->
                                IF Live(l) THEN NormalizeLayout(ms_layouts[l], S)
                                ELSE ms_layouts[l]]
        /\ ms_last' = MsLast("adjust_master_count", None, None)
        /\ UNCHANGED NotMsVars

\* update_settings
MsUpdateSettings(settings) ==
    /\ ms_settings' = settings
    /\ ms_layouts' = IF settings = ms_settings THEN ms_layouts
                     ELSE [l \in LayoutIds |->
                            IF Live(l)
                            THEN RebuildLayoutWithWindows(ms_layouts[l], settings,
                                    WindowsByContainer(ms_layouts[l], MasterFirst(ms_settings)))
                            ELSE ms_layouts[l]]
    /\ ms_last' = MsLast("update_settings", None, None)
    /\ UNCHANGED NotMsVars

\* rebalance, split_selection, unjoin_selection, ...: normalize_layout only
MsRebalance(l) ==
    /\ Live(l)
    /\ ms_layouts' = [ms_layouts EXCEPT ![l] = NormalizeLayout(@, ms_settings)]
    /\ ms_last' = MsLast("rebalance", l, None)
    /\ UNCHANGED NotMsVars
    /\ UNCHANGED ms_settings

MsNext ==
    \/ \E l \in LayoutIds : MsCreateLayout(l)
    \/ \E l \in LayoutIds : MsRemoveLayout(l)
    \/ \E l \in LayoutIds, w \in MsWindows : MsAddWindowAfterSelection(l, w)
    \/ \E w \in MsWindows, cull \in BOOLEAN :
            \E pref \in PrefChoices({w}) : MsRemoveWindow(w, pref, cull)
    \/ \E p \in MsPids, cull \in BOOLEAN :
            \E pref \in PrefChoices({w \in MsWindows : MsPidOf(w) = p}) :
                MsRemoveWindowsForApp(p, pref, cull)
    \/ \E l \in LayoutIds, p \in MsPids :
            \E desired \in SUBSET {w \in MsWindows : MsPidOf(w) = p} :
                MsSetWindowsForApp(l, p, desired)
    \/ \E l \in LayoutIds, w \in MsWindows : MsSelectWindow(l, w)
    \/ \E l \in LayoutIds, d \in Directions : MsMoveSelection(l, d)
    \/ \E f, t \in LayoutIds, cull \in BOOLEAN :
            \E pref \in {None} \cup Range(AllWindowsInLayout(ms_layouts[f])) :
                MsMoveSelectionToLayoutAfterSelection(f, t, pref, cull)
    \/ \E l \in LayoutIds : MsPromoteToMaster(l)
    \/ \E l \in LayoutIds : MsSwapMasterStack(l)
    \/ \E delta \in {-1, 1} : MsAdjustMasterCount(delta)
    \/ \E settings \in MsSettingsSpace : MsUpdateSettings(settings)
    \/ \E l \in LayoutIds : MsRebalance(l)

\* Filling layouts: the windows are added in the order w1, w2, w3, each to some layout,
\* and master_count is raised afterwards.
MsAddedSoFar == UNION {Range(AllWindowsInLayout(ms_layouts[l])) : l \in LayoutIds}
MsFillAdd(l) ==
    /\ ms_last.op # "adjust_master_count"
    /\ \E n \in 0..(Len(MsWindowOrder) - 1) :
            /\ MsAddedSoFar = {MsWindowOrder[i] : i \in 1..n}
            /\ MsAddWindowAfterSelection(l, MsWindowOrder[n + 1])
MsFillCreateLayout(l) ==
    /\ ms_last.op # "adjust_master_count"
    /\ MsCreateLayout(l)
MsFillNext ==
    \/ \E l \in LayoutIds : MsFillCreateLayout(l)
    \/ \E l \in LayoutIds : MsFillAdd(l)
    \/ MsAdjustMasterCount(1)

(***************************************************************************)
(* LAYOUT ENGINE: event and command dispatch                               *)
(* src/src/layout_engine/engine.rs                                         *)
(*                                                                         *)
(* VirtualWorkspaceManager, FloatingManager and WorkspaceLayouts are not   *)
(* part of the sources at hand; their state is the fields listed, window,   *)
(* active and layouts, ws_of, floating and factive of the record `eng`, and *)
(* their operations are modelled as the lookups and updates their call      *)
(* sites and the engine's tests describe.  Every workspace owns one layout  *)
(* system; tree[ws] is the set of windows held by the leaves of its layout. *)
(***************************************************************************)
EngSpaces == {"s1", "s2"}
EngWindows == {"w1"}
EngPids == {"p1"}
EngPidOf(w) == "p1"
\* list_workspaces(space): the default workspaces of a space, in order
WsList(space) == IF space = "s1" THEN <<"s1a", "s1b">> ELSE <<"s2a", "s2b">>
Workspaces == UNION {Range(WsList(s)) : s \in EngSpaces}
WsSpace(ws) == CHOOSE s \in EngSpaces : ws \in Range(WsList(s))

\* LayoutEngine::new
EngNew ==
    [listed |-> {}, active |-> [s \in EngSpaces |-> None], layouts |-> {},
     tree |-> [ws \in Workspaces |-> {}],
     ws_of |-> [w \in EngWindows |-> None],
     floating |-> {}, factive |-> [s \in EngSpaces |-> {}], focused |-> None]

\* virtual_workspace_manager.list_workspaces: creates the space's workspaces on first
\* use and makes the first one active
ListWorkspaces(E, space) ==
    IF space \in E.listed THEN E
    ELSE [E EXCEPT !.listed = @ \cup {space},
                   !.active[space] = IF @ = None THEN WsList(space)[1] ELSE @]

\* workspace_layouts.active(space, ws)
ActiveLayout(E, ws) == ws # None /\ ws \in E.layouts
\* workspace_and_layout: the active workspace of the space if it has an active layout
WorkspaceAndLayout(E, space) ==
    IF space # None /\ ActiveLayout(E, E.active[space]) THEN E.active[space] ELSE None
\* virtual_workspace_manager.workspace_for_window(space, wid)
WorkspaceForWindow(E, space, wid) ==
    IF E.ws_of[wid] # None /\ WsSpace(E.ws_of[wid]) = space THEN E.ws_of[wid] ELSE None

InTree(E, ws, wid) == wid \in E.tree[ws]
\* LayoutSystem::add_window_after_selection / remove_window on one workspace's tree
TreeAdd(E, ws, wid) == [E EXCEPT !.tree[ws] = @ \cup {wid}]
TreeRemove(E, wss, gone) ==
    [E EXCEPT !.tree = [ws \in Workspaces |->
                            IF ws \in wss THEN E.tree[ws] \ gone ELSE E.tree[ws]]]
\* floating.add_floating + add_active / remove_floating
AddActive(E, space, wid) == [E EXCEPT !.factive[space] = @ \cup {wid}]
RemoveActiveForWindow(E, wid) ==
    [E EXCEPT !.factive = [s \in EngSpaces |-> E.factive[s] \ {wid}]]
RemoveFloating(E, wid) == [RemoveActiveForWindow(E, wid) EXCEPT !.floating = @ \ {wid}]
\* update_active_floating_windows(space)
UpdateActiveFloating(E, space) ==
    [E EXCEPT !.factive[space] = {w \in E.floating : E.ws_of[w] = E.active[space]}]

\* space_with_window
SpaceWithWindow(E, wid) ==
    LET holds(s) == \/ WorkspaceAndLayout(E, s) # None /\ InTree(E, WorkspaceAndLayout(E, s), wid)
                    \/ wid \in E.factive[s]
        known(s) == \E ws \in Range(WsList(s)) : ws \in E.layouts
    IN  IF \E s \in EngSpaces : known(s) /\ holds(s)
        THEN CHOOSE s \in EngSpaces : known(s) /\ holds(s) ELSE None

\* remove_window_internal
RemoveWindowInternal(E, wid, preserve_floating) ==
    LET E1 == TreeRemove(E, IF E.ws_of[wid] # None THEN {E.ws_of[wid]} ELSE Workspaces, {wid})
        E2 == IF preserve_floating THEN RemoveActiveForWindow(E1, wid) ELSE RemoveFloating(E1, wid)
    IN  [E2 EXCEPT !.ws_of[wid] = None,
                   !.focused = IF @ = wid THEN None ELSE @]

Done(E) == [e |-> E, panic |-> FALSE]
Panic(E) == [e |-> E, panic |-> TRUE]

\* LayoutEvent::SpaceExposed
OnSpaceExposed(E, space) ==
    Done([ListWorkspaces(E, space) EXCEPT !.layouts = @ \cup Range(WsList(space))])

\* virtual_workspace_manager.auto_assign_window: on success the window is assigned to
\* the space's active workspace
AutoAssign(E, space, wid) ==
    LET E1 == ListWorkspaces(E, space)
    IN  [E1 EXCEPT !.ws_of[wid] = E1.active[space]]

\* LayoutEvent::WindowAdded; `auto_ok` is whether auto_assign_window succeeds when called
OnWindowAdded(E, space, wid, auto_ok) ==
    LET known == WorkspaceForWindow(E, space, wid)
        E1 == IF known # None THEN E ELSE IF auto_ok THEN AutoAssign(E, space, wid) ELSE E
        assigned == IF known # None THEN known
                    ELSE IF auto_ok THEN E1.ws_of[wid] ELSE E.active[space]
    IN  IF assigned = None THEN Panic(E)
        ELSE IF wid \in E1.floating THEN Done(AddActive(E1, space, wid))
        ELSE IF ActiveLayout(E1, assigned) /\ ~InTree(E1, assigned, wid)
        THEN Done(TreeAdd(E1, assigned, wid))
        ELSE Done(E1)

\* LayoutEvent::WindowFocused
OnWindowFocused(E, space, wid) == Done([E EXCEPT !.focused = wid])

\* LayoutEvent::AppClosed
OnAppClosed(E, pid) ==
    LET gone == {w \in EngWindows : EngPidOf(w) = pid}
        E1 == TreeRemove(E, Workspaces, gone)
    IN  Done([E1 EXCEPT !.floating = @ \ gone,
                        !.factive = [s \in EngSpaces |-> E.factive[s] \ gone],
                        !.ws_of = [w \in EngWindows |-> IF w \in gone THEN None ELSE E.ws_of[w]]])

\* The rule outcomes assign_window_with_app_info and auto_assign_window can produce for
\* a window listed in WindowsOnScreenUpdated(space, ..).
RuleOutcomes(space) ==
    [kind : {"managed"}, ws : Range(WsList(space)), floating : BOOLEAN, prev : BOOLEAN]
    \cup [kind : {"unmanaged", "auto_ok", "auto_err"}, ws : {None}, floating : {FALSE},
          prev : {FALSE}]

\* the outcome recorded for a pid whose windows the event does not list
Unlisted == {[kind |-> "unmanaged", ws |-> None, floating |-> FALSE, prev |-> FALSE]}

\* LayoutEvent::WindowsOnScreenUpdated(space, pid, windows, ..): `listed` are the
\* windows of the pid in the event, each met with the rule outcome `out`.
OnWindowsOnScreenUpdated(E, space, pid, listed, out) ==
    LET mine == {w \in EngWindows : EngPidOf(w) = pid}
        E0 == [E EXCEPT !.factive[space] = @ \ mine]
        takes == listed /\ out.kind \in {"managed", "auto_ok"}
        wid == CHOOSE w \in mine : TRUE
        was_floating == wid \in E0.floating
        E1 == IF ~takes THEN E0
              ELSE IF out.kind = "managed"
              THEN [ListWorkspaces(E0, space) EXCEPT !.ws_of[wid] = out.ws]
              ELSE AutoAssign(E0, space, wid)
        should_float == out.floating \/ (~out.prev /\ was_floating)
        E2 == IF ~takes THEN E1
              ELSE IF should_float
              THEN AddActive([E1 EXCEPT !.floating = @ \cup {wid}], space, wid)
              ELSE IF was_floating THEN RemoveFloating(E1, wid) ELSE E1
        tiled(ws) == {w \in mine : takes /\ w \notin E2.floating /\ E2.ws_of[w] = ws}
        desired(ws) == tiled(ws) \cup {w \in mine : E2.ws_of[w] = ws /\ w \notin E2.floating}
        total == Cardinality(UNION {tiled(ws) : ws \in Workspaces})
        skip(ws) == desired(ws) = {} /\ total = 0 /\ \E w \in mine : InTree(E2, ws, w)
    IN  Done([E2 EXCEPT !.tree = [ws \in Workspaces |->
                IF WsSpace(ws) = space /\ ws \in E2.layouts /\ ~skip(ws)
                THEN (E2.tree[ws] \ mine) \cup desired(ws)
                ELSE E2.tree[ws]]])

\* LayoutCommand::ToggleWindowFloating in handle_command
OnToggleWindowFloating(E, space) ==
    LET wid == E.focused
        known == WorkspaceForWindow(E, space, wid)
        assigned == IF known # None THEN known ELSE E.active[space]
    IN  IF wid = None THEN Done(E)
        ELSE IF wid \in E.floating
        THEN IF space # None /\ assigned = None THEN Panic(E)
             ELSE LET E1 == IF space # None /\ ActiveLayout(E, assigned)
                            THEN TreeAdd(E, assigned, wid) ELSE E
                      E2 == IF space # None
                            THEN [E1 EXCEPT !.factive[space] = @ \ {wid}] ELSE E1
                  IN  Done(RemoveFloating(E2, wid))
        ELSE LET E1 == IF space # None THEN AddActive(E, space, wid) ELSE E
                 ws == WorkspaceAndLayout(E, space)
                 E2 == IF ws # None THEN TreeRemove(E1, {ws}, {wid}) ELSE E1
             IN  Done([E2 EXCEPT !.floating = @ \cup {wid}])

\* LayoutCommand::MoveNode after resolution to `ws`: when move_selection reports no move
\* and next_space_for_direction finds `new_space`, the windows under the selection
\* (`under`) go to that space's active workspace.
OnMoveNode(E, space, ws, moved, new_space, under) ==
    LET new_ws == WorkspaceAndLayout(E, new_space)
        E1 == TreeRemove(E, {ws}, under)
    IN  IF moved \/ new_space = None \/ new_ws = None THEN Done(E)
        ELSE Done([E1 EXCEPT
                !.tree[new_ws] = @ \cup under,
                !.ws_of = [w \in EngWindows |-> IF w \in under THEN new_ws ELSE E.ws_of[w]]])

\* handle_command without the early return: a command whose space resolves to no
\* workspace or layout acts on the workspace of the focused window instead
OnHandleCommand_FocusedWorkspace(E, space, cmd, moved, new_space, under) ==
    LET ws == IF E.focused # None THEN E.ws_of[E.focused] ELSE None
    IN  IF cmd = "ToggleWindowFloating" THEN OnToggleWindowFloating(E, space)
        ELSE IF cmd = "MoveNode" /\ ws # None
        THEN OnMoveNode(E, space, ws, moved, new_space, {w \in under : InTree(E, ws, w)})
        ELSE Done(E)

\* handle_command: ToggleWindowFloating is served before the space, the active
\* workspace and the active layout are resolved; every other command returns early
\* when one of them is missing.
OnHandleCommand(E, space, cmd, moved, new_space, under) ==
    IF cmd = "ToggleWindowFloating" THEN OnToggleWindowFloating(E, space)
    ELSE IF WorkspaceAndLayout(E, space) = None THEN Done(E)
    ELSE IF cmd = "MoveNode"
    THEN OnMoveNode(E, space, WorkspaceAndLayout(E, space), moved, new_space,
                    {w \in under : InTree(E, WorkspaceAndLayout(E, space), w)})
    ELSE Done(E)

\* handle_virtual_workspace_command: SwitchToWorkspace(index) (NextWorkspace,
\* PrevWorkspace and SwitchToLastWorkspace make the same updates)
OnSwitchToWorkspace(E, space, index) ==
    LET E1 == ListWorkspaces(E, space)
        target == WsList(space)[index]
    IN  IF E1.active[space] = target THEN Done(E1)
        ELSE Done(UpdateActiveFloating([E1 EXCEPT !.active[space] = target], space))

\* handle_virtual_workspace_command: MoveWindowToWorkspace; `assigned` is the answer of
\* assign_window_to_workspace
OnMoveWindowToWorkspace(E, space, index, maybe_id, assigned) ==
    LET wid == IF maybe_id # None THEN maybe_id ELSE E.focused
        inferred == SpaceWithWindow(E, wid)
        op_space == IF inferred = None THEN space ELSE inferred
        E0 == ListWorkspaces(E, op_space)
        target == WsList(op_space)[index]
        current == WorkspaceForWindow(E0, op_space, wid)
        is_floating == wid \in E0.floating
        E1 == IF is_floating THEN RemoveActiveForWindow(E0, wid)
              ELSE TreeRemove(E0, Workspaces, {wid})
        E2 == [E1 EXCEPT !.ws_of[wid] = target]
        E3 == IF ~is_floating /\ ActiveLayout(E2, target) THEN TreeAdd(E2, target, wid) ELSE E2
    IN  IF wid = None \/ (maybe_id # None /\ WorkspaceForWindow(E, space, wid) = None)
        THEN Done(E)
        ELSE IF current = None \/ current = target THEN Done(E0)
        ELSE IF ~assigned
        THEN (IF is_floating THEN Done(AddActive(E1, op_space, wid))
              ELSE IF ActiveLayout(E1, current) THEN Done(TreeAdd(E1, current, wid))
              ELSE Done(E1))
        ELSE IF target = E3.active[op_space]
        THEN Done(IF is_floating THEN AddActive(E3, op_space, wid) ELSE E3)
        ELSE IF current = E3.active[op_space] THEN Done([E3 EXCEPT !.focused = None])
        ELSE Done(E3)

\* handle_virtual_workspace_command: SetWorkspaceLayout (index 0: no workspace given);
\* `differs` is whether the requested mode differs from the workspace's
OnSetWorkspaceLayout(E, space, index, differs) ==
    LET E1 == IF index # 0 THEN ListWorkspaces(E, space) ELSE E
        ws == IF index # 0 THEN WsList(space)[index] ELSE E.active[space]
        order == {w \in EngWindows : (InTree(E1, ws, w) \/ E1.ws_of[w] = ws) /\ w \notin E1.floating}
    IN  IF ws = None \/ ~differs THEN Done(E1)
        ELSE Done([E1 EXCEPT !.layouts = @ \cup {ws},
                             !.tree[ws] = order])

\* move_window_to_space; `assigned` is the answer of assign_window_to_workspace
OnMoveWindowToSpace(E, source_space, target_space, wid, assigned) ==
    LET E0 == ListWorkspaces(ListWorkspaces(E, source_space), target_space)
        source_ws == E0.ws_of[wid]
        target_ws == E0.active[target_space]
        was_floating == wid \in E0.floating
        E1 == IF was_floating THEN RemoveActiveForWindow(E0, wid)
              ELSE TreeRemove(E0, Workspaces, {wid})
        E2 == [E1 EXCEPT !.ws_of[wid] = target_ws,
                         !.layouts = @ \cup Range(WsList(target_space))]
        E3 == IF was_floating THEN AddActive(E2, target_space, wid)
              ELSE TreeAdd(E2, target_ws, wid)
    IN  IF source_space = target_space THEN Done(E)
        ELSE IF source_ws = None \/ target_ws = None THEN Done(E0)
        ELSE IF ~assigned
        THEN (IF was_floating THEN Done(AddActive(E1, source_space, wid))
              ELSE IF WsSpace(source_ws) = source_space /\ ActiveLayout(E1, source_ws)
              THEN Done(TreeAdd(E1, source_ws, wid))
              ELSE Done(E1))
        ELSE Done([E3 EXCEPT !.focused = wid])

EngInitPart ==
    /\ eng = EngNew
    /\ eng_panicked = FALSE
    /\ eng_last = [op |-> "new", space |-> None]

\* The commands handle_command serves after resolving workspace and layout
ResolvedCommands == {"MoveNode", "NextWindow"}

\* One call into the engine: `r` is the handler's result on the current engine.  A
\* panic unwinds the thread that owns the engine, so no call follows it.
EngCall(op, space, r) ==
    /\ ~eng_panicked
    /\ eng' = r.e
    /\ eng_panicked' = r.panic
    /\ eng_last' = IF op \in ResolvedCommands THEN [op |-> "command", space |-> space]
                   ELSE [op |-> "other", space |-> None]
    /\ UNCHANGED NotEngVars

EvSpaceExposed(space) == EngCall("SpaceExposed", space, OnSpaceExposed(eng, space))
EvWindowsOnScreenUpdated(space, pid, listed, out) ==
    EngCall("WindowsOnScreenUpdated", space, OnWindowsOnScreenUpdated(eng, space, pid, listed, out))
EvAppClosed(pid) == EngCall("AppClosed", None, OnAppClosed(eng, pid))
EvWindowAdded(space, wid, auto_ok) ==
    EngCall("WindowAdded", space, OnWindowAdded(eng, space, wid, auto_ok))
EvWindowRemoved(wid, preserve_floating) ==
    EngCall("WindowRemoved", None, Done(RemoveWindowInternal(eng, wid, preserve_floating)))
EvWindowFocused(space, wid) == EngCall("WindowFocused", space, OnWindowFocused(eng, space, wid))
CmdHandleCommand(space, cmd, moved, new_space, under) ==
    EngCall(cmd, space, OnHandleCommand(eng, space, cmd, moved, new_space, under))
CmdSwitchToWorkspace(space, index) ==
    EngCall("SwitchToWorkspace", space, OnSwitchToWorkspace(eng, space, index))
CmdMoveWindowToWorkspace(space, index, maybe_id, assigned) ==
    EngCall("MoveWindowToWorkspace", space,
            OnMoveWindowToWorkspace(eng, space, index, maybe_id, assigned))
CmdSetWorkspaceLayout(space, index, differs) ==
    EngCall("SetWorkspaceLayout", space, OnSetWorkspaceLayout(eng, space, index, differs))
CallMoveWindowToSpace(source_space, target_space, wid, assigned) ==
    EngCall("move_window_to_space", target_space,
            OnMoveWindowToSpace(eng, source_space, target_space, wid, assigned))

EngNext ==
    \/ \E space \in EngSpaces : EvSpaceExposed(space)
    \/ \E space \in EngSpaces, pid \in EngPids, listed \in BOOLEAN :
        \E out \in IF listed THEN RuleOutcomes(space) ELSE Unlisted :
            EvWindowsOnScreenUpdated(space, pid, listed, out)
    \/ \E pid \in EngPids : EvAppClosed(pid)
    \/ \E space \in EngSpaces, wid \in EngWindows, auto_ok \in BOOLEAN :
        EvWindowAdded(space, wid, auto_ok)
    \/ \E wid \in EngWindows, preserve_floating \in BOOLEAN :
        EvWindowRemoved(wid, preserve_floating)
    \/ \E space \in EngSpaces, wid \in EngWindows : EvWindowFocused(space, wid)
    \/ \E space \in EngSpaces \cup {None}, cmd \in {"ToggleWindowFloating", "NextWindow"} :
        CmdHandleCommand(space, cmd, TRUE, None, {})
    \/ \E space \in EngSpaces \cup {None}, new_space \in EngSpaces \cup {None},
          under \in SUBSET EngWindows :
        \E moved \in IF new_space = None /\ under = {} THEN BOOLEAN ELSE {FALSE} :
            CmdHandleCommand(space, "MoveNode", moved, new_space, under)
    \/ \E space \in EngSpaces, index \in 1..2 : CmdSwitchToWorkspace(space, index)
    \/ \E space \in EngSpaces, index \in 1..2, maybe_id \in EngWindows \cup {None},
          assigned \in BOOLEAN : CmdMoveWindowToWorkspace(space, index, maybe_id, assigned)
    \/ \E space \in EngSpaces, index \in 0..2, differs \in BOOLEAN :
        CmdSetWorkspaceLayout(space, index, differs)
    \/ \E source_space, target_space \in EngSpaces, wid \in EngWindows, assigned \in BOOLEAN :
        CallMoveWindowToSpace(source_space, target_space, wid, assigned)

(***************************************************************************)
(* REACTOR: serial event loop, churn quarantine, space vectors, queries    *)
(* src/src/actor/reactor.rs, reactor/events/space.rs, reactor/managers.rs, *)
(* reactor/query.rs                                                        *)
(*                                                                         *)
(* There is at most one display; it shows user space "s1", user space "s2" *)
(* or no space; a space vector may also report the full-screen space      *)
(* "fs".  No drag is in progress.                                          *)
(* What the window server reports about a window (does it                  *)
(* exist, its layer, its space) is read anew by every handler: it is an    *)
(* input of the step.                                                      *)
(***************************************************************************)
\* Bounds of the reactor model.
MaxQueue == 1          \* items waiting in the events channel
MaxQuarantined == 1    \* events held back by the topology manager in one churn

RxWsids == {"x1"}
RxUserSpaces == {"s1", "s2"}
\* a space that is neither a user space nor a fullscreen space
SystemSpace == "sys"
\* the space of an application in full-screen mode
FullscreenSpace == "fs"
\* Vec<Option<SpaceId>>: space vectors and the space fields of screen lists
RxVectors == {<<>>, <<None>>, <<"s1">>, <<"s2">>}

\* window_server::get_window / window_space as seen by one handler
OsFacts == {[exists |-> FALSE, layer |-> 0, space |-> None],
            [exists |-> TRUE, layer |-> 0, space |-> "s1"],
            [exists |-> TRUE, layer |-> 0, space |-> "s2"],
            [exists |-> TRUE, layer |-> 1, space |-> "s1"],
            [exists |-> TRUE, layer |-> 0, space |-> None],
            [exists |-> TRUE, layer |-> 0, space |-> SystemSpace]}
OsViews == [RxWsids -> OsFacts]

\* window_server::space_is_user
SpaceIsUser(space) == space \in RxUserSpaces

QuarantinedKinds == {"WindowServerAppeared", "WindowServerDestroyed", "ResyncAppForWindow"}

\* the record a topology commit leaves in the history
NoCommit == [done |-> FALSE, pre |-> {}, post |-> {}, syn |-> <<>>, log |-> <<>>,
             os |-> [w \in RxWsids |-> [exists |-> FALSE, layer |-> 0, space |-> None]]]

\* Reactor::new: no screens, no windows, topology stable
RxNew ==
    [screens |-> <<>>,
     active_spaces |-> {},
     has_seen_display_set |-> FALSE,
     window_ids |-> {},
     window_server_info |-> {},
     visible_windows |-> {},
     observed_window_server_ids |-> {},
     topology |-> "Stable",
     pre_known_wsids |-> {},
     quarantined |-> 0,
     pending_space_change |-> <<>>,
     topology_relayout_pending |-> FALSE,
     mission_control_active |-> FALSE]

\* A handler in progress: the reactor's fields, what it has sent so far, a commit's record.
Begin(R) == [r |-> R, out |-> {}, commit |-> NoCommit]
Sent(X, what) == [X EXCEPT !.out = @ \cup {what}]

\* ---- DisplayTopologyManager ----
IsChurningOrAwaitingCommit(R) == R.topology # "Stable"
BeginChurn(R, pre_known) ==
    [R EXCEPT !.topology = "Churning", !.pre_known_wsids = pre_known]
EndChurnToAwaiting(R) == [R EXCEPT !.topology = "AwaitingCommit"]
MarkStable(R) ==
    [R EXCEPT !.topology = "Stable", !.pre_known_wsids = {}, !.quarantined = 0]
\* quarantine_appeared / quarantine_destroyed / quarantine_resync: one more event held back
Quarantine(R) == [R EXCEPT !.quarantined = @ + 1]

\* ---- window-server tables ----
UpdatePartialWindowServerInfo(X, ids) ==
    [X EXCEPT !.r.visible_windows = @ \cup ids,
              !.r.observed_window_server_ids = @ \ ids,
              !.r.window_server_info = @ \cup ids]
UpdateCompleteWindowServerInfo(X, ids) ==
    UpdatePartialWindowServerInfo([X EXCEPT !.r.visible_windows = {}], ids)

\* window_server::get_visible_windows_with_layer(None)
VisibleWindowsWithLayer(os) == {w \in RxWsids : os[w].exists}
FilterWsInfoToActiveSpaces(R, os, ids) ==
    IF R.active_spaces = {} THEN {}
    ELSE {w \in ids : os[w].space \in R.active_spaces}
AuthoritativeWindowSnapshotForActiveSpaces(R, os) ==
    FilterWsInfoToActiveSpaces(R, os, VisibleWindowsWithLayer(os))

\* every id the reactor knows: what DisplayChurnBegin snapshots
KnownWsids(R) == R.window_ids \cup R.window_server_info \cup R.visible_windows

\* ---- screens and active spaces ----
RawSpacesForCurrentScreens(R) == R.screens
ScreenBySpace(R, space) == \E i \in DOMAIN R.screens : R.screens[i] = space
FirstKnownSpace(R) ==
    IF \E i \in DOMAIN R.screens : R.screens[i] # None
    THEN R.screens[CHOOSE i \in DOMAIN R.screens :
                        /\ R.screens[i] # None
                        /\ \A j \in DOMAIN R.screens : R.screens[j] # None => i <= j]
    ELSE None
SetScreenSpaces(R, spaces) ==
    [R EXCEPT !.screens = [i \in DOMAIN R.screens |->
                              IF i <= Len(spaces) THEN spaces[i] ELSE R.screens[i]]]
\* SpaceActivationPolicy::compute_active_spaces under the default configuration
ComputeActiveSpaces(spaces) == spaces
SetActiveSpaces(R, spaces) == [R EXCEPT !.active_spaces = Range(spaces) \ {None}]
IsSpaceActive(R, space) == space \in R.active_spaces

HandleActiveSpaceChange(X, previous_active, os) ==
    IF previous_active = X.r.active_spaces THEN X
    ELSE LET activated == X.r.active_spaces \ previous_active
             X1 == IF \E space \in activated : ScreenBySpace(X.r, space)
                   THEN Sent(X, "SpaceExposed") ELSE X
             X2 == UpdateCompleteWindowServerInfo(
                       X1, AuthoritativeWindowSnapshotForActiveSpaces(X1.r, os))
         IN  Sent(X2, "GetVisibleWindows")
RecomputeAndSetActiveSpaces(X, spaces, os) ==
    HandleActiveSpaceChange(
        [X EXCEPT !.r = SetActiveSpaces(@, ComputeActiveSpaces(spaces))],
        X.r.active_spaces, os)

ExposeAllSpaces(X) ==
    IF \E i \in DOMAIN X.r.screens :
            X.r.screens[i] # None /\ IsSpaceActive(X.r, X.r.screens[i])
    THEN Sent(X, "SpaceExposed") ELSE X

FinalizeSpaceChange(X, spaces, os) ==
    LET X1 == ExposeAllSpaces(X)
        X2 == UpdateCompleteWindowServerInfo(
                  X1, AuthoritativeWindowSnapshotForActiveSpaces(X1.r, os))
        X3 == Sent(X2, "GetVisibleWindows")
    IN  IF \E i \in DOMAIN spaces : spaces[i] # None /\ IsSpaceActive(X3.r, spaces[i])
        THEN Sent(X3, "WorkspaceChanged") ELSE X3

\* LayoutManager::update_layout: with a registered window, the layout of every screen that
\* shows an active space is computed again and applied
UpdateLayout(X) ==
    IF X.r.window_ids = {} THEN X
    ELSE IF \E i \in DOMAIN X.r.screens :
                X.r.screens[i] # None /\ IsSpaceActive(X.r, X.r.screens[i])
         THEN Sent(X, "layout") ELSE X

\* ---- window-server appear / destroy (reactor/events/space.rs) ----
HandleWindowServerDestroyed(X, wsid, sid, os) ==
    IF ~SpaceIsUser(sid) THEN X
    ELSE IF os[wsid].space # None /\ os[wsid].space # sid THEN X
    ELSE IF wsid \in X.r.window_ids
         THEN Sent([X EXCEPT !.r.window_ids = @ \ {wsid},
                             !.r.window_server_info = @ \ {wsid},
                             !.r.visible_windows = @ \ {wsid}],
                   "WindowDestroyed")
         ELSE X

HandleWindowServerAppeared(X, wsid, sid, os) ==
    IF wsid \in X.r.window_server_info \/ wsid \in X.r.observed_window_server_ids THEN X
    ELSE LET X1 == [X EXCEPT !.r.observed_window_server_ids = @ \cup {wsid}]
         IN  IF ~os[wsid].exists THEN X1
             ELSE IF os[wsid].layer # 0 THEN X1
             ELSE Sent(UpdatePartialWindowServerInfo(X1, {wsid}), "GetVisibleWindows")

\* AppEventHandler::handle_resync_app_for_window: the owning application is asked again
HandleResyncAppForWindow(X, wsid) == Sent(X, "GetVisibleWindows")

\* WindowEventHandler::handle_window_created: the window and its server id are registered
HandleWindowCreated(X, wsid) == [X EXCEPT !.r.window_ids = @ \cup {wsid}]

\* ---- topology commit ----
\* the ids of a set, one after the other
RECURSIVE InSomeOrder(_)
InSomeOrder(S) ==
    IF S = {} THEN <<>>
    ELSE LET w == CHOOSE x \in S : TRUE IN <<w>> \o InSomeOrder(S \ {w})

Synthesized(X, kind, wsid) ==
    [X EXCEPT !.commit.syn = Append(@, <<kind, wsid>>), !.commit.log = Append(@, kind)]
\* what a commit does besides the synthesized events, in the order it does it
Logged(X, what) == [X EXCEPT !.commit.log = Append(@, what)]

RECURSIVE ReconcileAppeared(_, _, _)
ReconcileAppeared(X, appeared, os) ==
    IF appeared = <<>> THEN X
    ELSE LET wsid == Head(appeared)
             space == os[wsid].space
             X1 == IF os[wsid].layer # 0 THEN X
                   ELSE IF space = None THEN X
                   ELSE IF ~IsSpaceActive(X.r, space) /\ ~SpaceIsUser(space) THEN X
                   ELSE Synthesized(HandleWindowServerAppeared(X, wsid, space, os),
                                    "appeared", wsid)
         IN  ReconcileAppeared(X1, Tail(appeared), os)

RECURSIVE ReconcileDisappeared(_, _, _)
ReconcileDisappeared(X, disappeared, os) ==
    IF disappeared = <<>> THEN X
    ELSE LET wsid == Head(disappeared)
             still_exists == os[wsid].exists
             in_user_or_active ==
                 /\ os[wsid].space # None
                 /\ (SpaceIsUser(os[wsid].space) \/ IsSpaceActive(X.r, os[wsid].space))
             sid == IF os[wsid].space # None THEN os[wsid].space ELSE FirstKnownSpace(X.r)
             X1 == IF still_exists /\ in_user_or_active THEN X
                   ELSE IF sid = None THEN X
                   ELSE Synthesized(HandleWindowServerDestroyed(X, wsid, sid, os),
                                    "destroyed", wsid)
         IN  ReconcileDisappeared(X1, Tail(disappeared), os)

\* a reconciliation that would synthesize appear events only
ReconcileWindowsAfterTopologyCommit_AppearedOnly(X, pre_known_wsids, post_visible_wsids, os) ==
    Logged(UpdateLayout(Logged(Sent(ReconcileAppeared(X,
                                        InSomeOrder(post_visible_wsids \ pre_known_wsids), os),
                                    "GetVisibleWindows"),
                               "force_refresh_all_windows")),
           "update_layout")
ReconcileWindowsAfterTopologyCommit(X, pre_known_wsids, post_visible_wsids, os) ==
    LET X1 == ReconcileAppeared(X, InSomeOrder(post_visible_wsids \ pre_known_wsids), os)
        X2 == ReconcileDisappeared(X1, InSomeOrder(pre_known_wsids \ post_visible_wsids), os)
    IN  Logged(UpdateLayout(Logged(Sent(X2, "GetVisibleWindows"),
                                   "force_refresh_all_windows")),
               "update_layout")

\* a commit that would not wait for a complete screen list
MaybeCommitDisplayTopologySnapshot_AtOnce(X, os) ==
    IF X.r.topology # "AwaitingCommit" THEN X
    ELSE LET pre == X.r.pre_known_wsids
             post == AuthoritativeWindowSnapshotForActiveSpaces(X.r, os)
             X1 == [X EXCEPT !.commit = [done |-> TRUE, pre |-> pre, post |-> post,
                                         syn |-> <<>>, log |-> <<>>, os |-> os]]
             X2 == ReconcileWindowsAfterTopologyCommit(X1, pre, post, os)
         IN  Logged([X2 EXCEPT !.r = MarkStable(@)], "mark_stable")
MaybeCommitDisplayTopologySnapshot(X, os) ==
    IF X.r.topology # "AwaitingCommit" THEN X
    ELSE IF X.r.screens = <<>> \/ \E i \in DOMAIN X.r.screens : X.r.screens[i] = None THEN X
    ELSE LET pre == X.r.pre_known_wsids
             post == AuthoritativeWindowSnapshotForActiveSpaces(X.r, os)
             X1 == [X EXCEPT !.commit = [done |-> TRUE, pre |-> pre, post |-> post,
                                         syn |-> <<>>, log |-> <<>>, os |-> os]]
             X2 == ReconcileWindowsAfterTopologyCommit(X1, pre, post, os)
         IN  Logged([X2 EXCEPT !.r = MarkStable(@)], "mark_stable")

\* ---- full-screen spaces ----
\* window_server::space_is_fullscreen
SpaceIsFullscreen(space) == space = FullscreenSpace

\* handle_fullscreen_space_transition's answer: the vector is not empty and every entry is
\* a full-screen space
AllFullscreen_Never(spaces) == FALSE
AllFullscreen(spaces) ==
    /\ spaces # <<>>
    /\ \A i \in DOMAIN spaces : spaces[i] # None /\ SpaceIsFullscreen(spaces[i])
\* handle_fullscreen_space_transition's change of the vector: full-screen entries are
\* cleared.  (fullscreen_by_space is filled under full-screen space ids and looked up under
\* the other entries of the vector, so with one kind per space id no track is found.)
StripFullscreen(spaces) ==
    [i \in DOMAIN spaces |->
        IF spaces[i] # None /\ SpaceIsFullscreen(spaces[i]) THEN None ELSE spaces[i]]

\* the queued vector thrown away instead of applied
TryApplyPendingSpaceChange_Discard(X, os) ==
    [X EXCEPT !.r.pending_space_change = <<>>]

\* ---- pending space change, Mission Control ----
TryApplyPendingSpaceChange(X, os) ==
    IF X.r.pending_space_change = <<>> THEN X
    ELSE LET pending == X.r.pending_space_change[1]
             spaces == StripFullscreen(pending)
         IN  IF Len(pending) = Len(X.r.screens)
             THEN LET X1 == [X EXCEPT !.r.pending_space_change = <<>>]
                      X2 == RecomputeAndSetActiveSpaces(X1, spaces, os)
                      X3 == [X2 EXCEPT !.r = SetScreenSpaces(@, spaces)]
                  IN  IF AllFullscreen(pending) THEN X1
                      ELSE FinalizeSpaceChange(X3, spaces, os)
             ELSE X

\* cgs: screen::current_space_for_display_uuid of each display
RepairSpacesAfterMissionControl(X, cgs, os) ==
    LET X1 == TryApplyPendingSpaceChange(X, os)
        needs_repair ==
            \/ X1.r.active_spaces = {}
            \/ \A i \in DOMAIN X1.r.screens : X1.r.screens[i] = None
        spaces == [i \in DOMAIN X1.r.screens |->
                      IF cgs[i] # None THEN cgs[i] ELSE X1.r.screens[i]]
    IN  IF ~needs_repair \/ X1.r.screens = <<>> THEN X1
        ELSE IF \E i \in DOMAIN spaces : spaces[i] # None
             THEN RecomputeAndSetActiveSpaces(
                      [X1 EXCEPT !.r = SetScreenSpaces(@, spaces)], spaces, os)
             ELSE X1

RefreshWindowsAfterMissionControl(X, os) ==
    UpdateLayout(Sent(UpdatePartialWindowServerInfo(X, VisibleWindowsWithLayer(os)),
                      "GetVisibleWindows"))

HandleMissionControlNativeEntered(X) == [X EXCEPT !.r.mission_control_active = TRUE]
HandleMissionControlNativeExited(X, cgs, os) ==
    RefreshWindowsAfterMissionControl(
        RepairSpacesAfterMissionControl(
            [X EXCEPT !.r.mission_control_active = FALSE], cgs, os), os)

\* ---- space vectors and screen lists (reactor/events/space.rs) ----
AllNone(spaces) == \A i \in DOMAIN spaces : spaces[i] = None

\* handle_space_changed's test for an exact duplicate of the applied vector
IsDuplicateSnapshot_Never(R, spaces) == FALSE
IsDuplicateSnapshot(R, spaces) ==
    /\ spaces = RawSpacesForCurrentScreens(R)
    /\ ~R.topology_relayout_pending
    /\ ~IsChurningOrAwaitingCommit(R)

HandleSpaceChanged(X, reported, os) ==
    LET R == X.r
        spaces == StripFullscreen(reported)
    IN
    IF Len(reported) > Len(R.screens) THEN X
    ELSE IF IsDuplicateSnapshot(R, reported) THEN X
    ELSE IF R.topology_relayout_pending /\ Len(reported) # Len(R.screens) THEN X
    ELSE IF AllFullscreen(reported) THEN X
    ELSE IF R.mission_control_active
         THEN [X EXCEPT !.r.pending_space_change = <<spaces>>]
    ELSE IF AllNone(spaces)
         THEN RecomputeAndSetActiveSpaces(
                  IF Len(spaces) = Len(R.screens)
                  THEN [X EXCEPT !.r = SetScreenSpaces(@, spaces)] ELSE X,
                  spaces, os)
    ELSE IF Len(spaces) # Len(R.screens) THEN X
    ELSE LET X1 == RecomputeAndSetActiveSpaces(X, spaces, os)
             X2 == [X1 EXCEPT !.r = SetScreenSpaces(@, spaces)]
             X3 == FinalizeSpaceChange(X2, spaces, os)
             X4 == IF X3.r.topology_relayout_pending
                   THEN UpdateLayout(Sent([X3 EXCEPT !.r.topology_relayout_pending = FALSE],
                                          "GetVisibleWindows"))
                   ELSE X3
         IN  MaybeCommitDisplayTopologySnapshot(X4, os)

\* `screens` is the space field of each screen of the new list, in display order
HandleScreenParametersChanged(X, screens, os) ==
    LET previous_screens == X.r.screens
        displays_changed == Len(previous_screens) # Len(screens)
        display_order_changed == Len(previous_screens) # Len(screens)
        display_space_changed ==
            \E i \in DOMAIN previous_screens \cap DOMAIN screens :
                /\ previous_screens[i] # None
                /\ screens[i] # None
                /\ screens[i] # previous_screens[i]
        topology_changed ==
            displays_changed \/ display_order_changed \/ display_space_changed
        should_trigger_topology ==
            topology_changed /\ (X.r.has_seen_display_set \/ previous_screens # <<>>)
        X0 == IF screens # <<>> THEN [X EXCEPT !.r.has_seen_display_set = TRUE] ELSE X
        X1 == IF screens = <<>>
              THEN UpdateCompleteWindowServerInfo(
                       RecomputeAndSetActiveSpaces(
                           ExposeAllSpaces([X0 EXCEPT !.r.screens = <<>>]), <<>>, os),
                       {})
              ELSE LET Xa == [X0 EXCEPT !.r.screens = screens]
                       resized_screens == DOMAIN screens \ DOMAIN previous_screens
                       Xb == RecomputeAndSetActiveSpaces(Xa, screens, os)
                       Xc == IF \E i \in resized_screens :
                                    screens[i] # None /\ IsSpaceActive(Xb.r, screens[i])
                             THEN Sent(Xb, "SpaceExposed") ELSE Xb
                   IN  FinalizeSpaceChange(Xc, screens, os)
        X2 == MaybeCommitDisplayTopologySnapshot(TryApplyPendingSpaceChange(X1, os), os)
    IN  IF should_trigger_topology
        THEN [X2 EXCEPT !.r.topology_relayout_pending = TRUE] ELSE X2

\* ---- the loop (reactor.rs) ----
\* an event with the arguments its kind carries (the others are left at their defaults)
Ev(kind, wsid, sid, spaces) == [kind |-> kind, wsid |-> wsid, sid |-> sid, spaces |-> spaces]

ShouldProcessDuringChurn(kind) ==
    kind \in {"DisplayChurnBegin", "DisplayChurnEnd", "ScreenParametersChanged",
              "SpaceChanged", "MissionControlNativeEntered", "MissionControlNativeExited"}

\* [hit |-> the event is held back, r |-> the reactor afterwards]
MaybeQuarantineDuringChurn_Never(R, kind) == [hit |-> FALSE, r |-> R]
MaybeQuarantineDuringChurn(R, kind) ==
    IF ~IsChurningOrAwaitingCommit(R) THEN [hit |-> FALSE, r |-> R]
    ELSE IF ShouldProcessDuringChurn(kind) THEN [hit |-> FALSE, r |-> R]
    ELSE [hit |-> TRUE,
          r |-> IF kind \in QuarantinedKinds THEN Quarantine(R) ELSE R]

FinalizeEventProcessing(X) ==
    IF IsChurningOrAwaitingCommit(X.r) THEN X ELSE UpdateLayout(X)

HandleEvent(X, ev, os) ==
    IF ev.kind = "DisplayChurnBegin"
    THEN [X EXCEPT !.r = BeginChurn(@, KnownWsids(X.r))]
    ELSE IF ev.kind = "DisplayChurnEnd"
    THEN [X EXCEPT !.r = EndChurnToAwaiting(@)]
    ELSE LET q == MaybeQuarantineDuringChurn(X.r, ev.kind) IN
         IF q.hit THEN [X EXCEPT !.r = q.r]
         ELSE FinalizeEventProcessing(
            CASE ev.kind = "WindowCreated" -> HandleWindowCreated(X, ev.wsid)
              [] ev.kind = "ResyncAppForWindow" -> HandleResyncAppForWindow(X, ev.wsid)
              [] ev.kind = "WindowServerDestroyed" ->
                    HandleWindowServerDestroyed(X, ev.wsid, ev.sid, os)
              [] ev.kind = "WindowServerAppeared" ->
                    HandleWindowServerAppeared(X, ev.wsid, ev.sid, os)
              [] ev.kind = "ScreenParametersChanged" ->
                    HandleScreenParametersChanged(X, ev.spaces, os)
              [] ev.kind = "SpaceChanged" -> HandleSpaceChanged(X, ev.spaces, os)
              [] ev.kind = "MissionControlNativeEntered" ->
                    HandleMissionControlNativeEntered(X)
              [] ev.kind = "MissionControlNativeExited" ->
                    HandleMissionControlNativeExited(X, ev.spaces, os))

HandleLoopEvent(R, ev, os) ==
    LET q == MaybeQuarantineDuringChurn(R, ev.kind) IN
    IF q.hit THEN Begin(q.r) ELSE HandleEvent(Begin(R), ev, os)

\* Reactor::query_displays: the screens with their spaces and which of them are active
QueryDisplays(R) == [screens |-> R.screens, active_spaces |-> R.active_spaces]

\* ---- actions of the reactor and its clients ----
NoOsView == NoCommit.os

LenRel(spaces, R) ==
    IF Len(spaces) < Len(R.screens) THEN "short"
    ELSE IF Len(spaces) > Len(R.screens) THEN "long" ELSE "equal"

\* the history tells apart the kinds the properties below speak of
RecordedKinds ==
    QuarantinedKinds \cup {"SpaceChanged", "ScreenParametersChanged", "Query", "none"}
RxLast(ev, R, X, reply) ==
    [kind |-> IF ev.kind \in RecordedKinds THEN ev.kind ELSE "other",
     dup |-> ev.kind = "SpaceChanged" /\ ev.spaces = RawSpacesForCurrentScreens(R),
     len |-> IF ev.kind = "SpaceChanged" THEN LenRel(ev.spaces, R) ELSE "equal",
     spaces |-> IF ev.kind = "SpaceChanged" THEN ev.spaces ELSE <<>>,
     out |-> X.out,
     commit |-> X.commit,
     reply |-> reply]

RxInitPart ==
    /\ rx = RxNew
    /\ rx_queue = <<>>
    /\ rx_busy = FALSE
    /\ rx_last = RxLast(Ev("none", "x1", "s1", <<>>), RxNew, Begin(RxNew), <<>>)

\* a sender puts an event into the channel (events_tx.send)
SendEvent ==
    /\ Len(rx_queue) < MaxQueue
    /\ rx_queue' = Append(rx_queue, "Event")
    /\ UNCHANGED <<rx, rx_busy, rx_last>>
    /\ UNCHANGED NotRxVars

\* a client that would read the reactor's fields itself, without the channel
SendQuery_DirectRead ==
    /\ Len(rx_queue) < MaxQueue
    /\ rx_last' = RxLast(Ev("Query", "x1", "s1", <<>>), rx, Begin(rx), <<QueryDisplays(rx)>>)
    /\ UNCHANGED <<rx, rx_queue, rx_busy>>
    /\ UNCHANGED NotRxVars

\* send_query: the request goes into the same channel as every event
SendQuery ==
    /\ Len(rx_queue) < MaxQueue
    /\ rx_queue' = Append(rx_queue, "Query")
    /\ UNCHANGED <<rx, rx_busy, rx_last>>
    /\ UNCHANGED NotRxVars

\* run_reactor_loop: events.recv() / try_recv() hands the oldest item to the loop
Recv ==
    /\ ~rx_busy
    /\ rx_queue # <<>>
    /\ rx_busy' = TRUE
    /\ UNCHANGED <<rx, rx_queue, rx_last>>
    /\ UNCHANGED NotRxVars

\* handle_loop_event on a Query: handle_query_request replies from the reactor's fields
AnswerQuery ==
    /\ rx_busy
    /\ Head(rx_queue) = "Query"
    /\ rx_last' = RxLast(Ev("Query", "x1", "s1", <<>>), rx, Begin(rx), <<QueryDisplays(rx)>>)
    /\ rx_queue' = Tail(rx_queue)
    /\ rx_busy' = FALSE
    /\ UNCHANGED rx
    /\ UNCHANGED NotRxVars

\* handle_loop_event on any other event
Handle(ev, os) ==
    /\ (ev.kind \in QuarantinedKinds /\ IsChurningOrAwaitingCommit(rx))
            => rx.quarantined < MaxQuarantined
    /\ LET X == HandleLoopEvent(rx, ev, os) IN
        /\ rx' = X.r
        /\ rx_last' = RxLast(ev, rx, X, <<>>)

\* one turn of the loop when nothing else waits: the event is received and handled
LoopStep(ev, os) ==
    /\ ~rx_busy
    /\ rx_queue = <<>>
    /\ Handle(ev, os)
    /\ UNCHANGED <<rx_queue, rx_busy>>
    /\ UNCHANGED NotRxVars

\* the loop handles the event it has taken from the channel
DequeuedStep(ev, os) ==
    /\ rx_busy
    /\ Head(rx_queue) = "Event"
    /\ Handle(ev, os)
    /\ rx_queue' = Tail(rx_queue)
    /\ rx_busy' = FALSE
    /\ UNCHANGED NotRxVars

OnDisplayChurnBegin == LoopStep(Ev("DisplayChurnBegin", "x1", "s1", <<>>), NoOsView)
OnDisplayChurnEnd == LoopStep(Ev("DisplayChurnEnd", "x1", "s1", <<>>), NoOsView)
OnWindowCreated(wsid) == LoopStep(Ev("WindowCreated", wsid, "s1", <<>>), NoOsView)
OnResyncAppForWindow(wsid) == LoopStep(Ev("ResyncAppForWindow", wsid, "s1", <<>>), NoOsView)
OnWindowServerAppeared(wsid, sid, os) ==
    LoopStep(Ev("WindowServerAppeared", wsid, sid, <<>>), os)
OnWindowServerDestroyed(wsid, sid, os) ==
    LoopStep(Ev("WindowServerDestroyed", wsid, sid, <<>>), os)
OnScreenParametersChanged(screens, os) ==
    LoopStep(Ev("ScreenParametersChanged", "x1", "s1", screens), os)
OnSpaceChanged(spaces, os) == LoopStep(Ev("SpaceChanged", "x1", "s1", spaces), os)
OnMissionControlNativeEntered ==
    LoopStep(Ev("MissionControlNativeEntered", "x1", "s1", <<>>), NoOsView)
OnMissionControlNativeExited(cgs, os) ==
    LoopStep(Ev("MissionControlNativeExited", "x1", "s1", cgs), os)

RxNext ==
    \/ OnDisplayChurnBegin
    \/ OnDisplayChurnEnd
    \/ \E wsid \in RxWsids : OnWindowCreated(wsid)
    \/ \E wsid \in RxWsids : OnResyncAppForWindow(wsid)
    \/ \E wsid \in RxWsids, sid \in RxUserSpaces, os \in OsViews :
            OnWindowServerAppeared(wsid, sid, os)
    \/ \E wsid \in RxWsids, sid \in RxUserSpaces \cup {SystemSpace}, os \in OsViews :
            OnWindowServerDestroyed(wsid, sid, os)
    \/ \E screens \in RxVectors, os \in OsViews : OnScreenParametersChanged(screens, os)
    \/ \E spaces \in RxVectors \cup {<<FullscreenSpace>>}, os \in OsViews :
            OnSpaceChanged(spaces, os)
    \/ OnMissionControlNativeEntered
    \/ \E cgs \in {v \in RxVectors : Len(v) = Len(rx.screens)}, os \in OsViews :
            OnMissionControlNativeExited(cgs, os)

(***************************************************************************)
(* WINDOW-TO-SPACE RESOLUTION: best_space_for_frame                        *)
(* src/src/actor/reactor.rs                                                *)
(*                                                                         *)
(* Coordinates are counted in half points, so that a frame's centre and an *)
(* intersection of fractional area are both representable: a rectangle is  *)
(* [x0, y0, x1, y1] with x0 <= x1 and y0 <= y1, and an area of n square    *)
(* half points is n / 4 square points.                                     *)
(***************************************************************************)
FrameMaxX == 6
FrameMaxY == 6

Rect(x0, y0, x1, y1) == [x0 |-> x0, y0 |-> y0, x1 |-> x1, y1 |-> y1]

\* Window frames: rectangles of positive width and height, possibly partly off screen.
BsfFrames ==
    {Rect(x0, y0, x1, y1) : x0 \in 0..FrameMaxX, y0 \in 0..FrameMaxY,
                            x1 \in 0..FrameMaxX, y1 \in 0..FrameMaxY} \cap
    {r \in [x0 : 0..FrameMaxX, y0 : 0..FrameMaxY, x1 : 0..FrameMaxX, y1 : 0..FrameMaxY] :
        r.x0 < r.x1 /\ r.y0 < r.y1}

\* Display arrangements: displays never overlap; the second display sits to the right of
\* the first and is as tall as it or shorter.
LeftDisplay == Rect(0, 0, 3, FrameMaxY)
RightDisplays == {Rect(3, 0, FrameMaxX, FrameMaxY), Rect(3, 0, FrameMaxX, 3)}
BsfSpaces == {"s1", "s2"}
BsfOptSpaces == {<<>>} \cup {<<s>> : s \in BsfSpaces}

ScreenRec(frame, space) == [frame |-> frame, space |-> space]

BsfArrangements ==
    {<<>>} \cup
    {<<ScreenRec(LeftDisplay, a)>> : a \in BsfOptSpaces} \cup
    {arr \in UNION {{<<ScreenRec(LeftDisplay, a), ScreenRec(r, b)>>,
                     <<ScreenRec(r, b), ScreenRec(LeftDisplay, a)>>} :
                        a \in BsfOptSpaces, b \in BsfOptSpaces, r \in RightDisplays} :
        arr[1].space = <<>> \/ arr[1].space # arr[2].space}

\* CGRect::mid, doubled: twice the centre's coordinates
Mid2(r) == [x |-> r.x0 + r.x1, y |-> r.y0 + r.y1]

\* CGRect::contains(point), for a point given doubled.  Whether a point on the rectangle's
\* far edge is inside is the geometry helper's choice: closed says it is.
ContainsMid(r, c2, closed) ==
    /\ 2 * r.x0 <= c2.x /\ 2 * r.y0 <= c2.y
    /\ IF closed THEN c2.x <= 2 * r.x1 /\ c2.y <= 2 * r.y1
       ELSE c2.x < 2 * r.x1 /\ c2.y < 2 * r.y1

\* CGRect::intersection(..).area(), in square half points
IntersectionArea4(a, b) ==
    Max(Min(a.x1, b.x1) - Max(a.x0, b.x0), 0) * Max(Min(a.y1, b.y1) - Max(a.y0, b.y0), 0)

\* `area as i64`: the area in square points, truncated
AreaAsI64(a, b) == IntersectionArea4(a, b) \div 4

\* find_map over the screens: the first screen that has a space and contains the centre
CenterHits(screens, frame, closed) ==
    {i \in DOMAIN screens :
        screens[i].space # <<>> /\ ContainsMid(screens[i].frame, Mid2(frame), closed)}

\* filter_map over the screens: those with a space and a positive truncated area
AreaCandidates(screens, frame) ==
    {i \in DOMAIN screens :
        screens[i].space # <<>> /\ AreaAsI64(screens[i].frame, frame) > 0}

MinOf(S) == CHOOSE i \in S : \A j \in S : i <= j
MaxOf(S) == CHOOSE i \in S : \A j \in S : j <= i

\* Iterator::min_by_key: the first of the elements with the least key
MinByArea(screens, frame, cand) ==
    MinOf({i \in cand : \A j \in cand :
              AreaAsI64(screens[i].frame, frame) <= AreaAsI64(screens[j].frame, frame)})

\* the first of the elements with the greatest key
MaxByArea_FirstOnTie(screens, frame, cand) ==
    MinOf({i \in cand : \A j \in cand :
              AreaAsI64(screens[j].frame, frame) <= AreaAsI64(screens[i].frame, frame)})

\* Iterator::max_by_key: the last of the elements with the greatest key
MaxByArea(screens, frame, cand) ==
    MaxOf({i \in cand : \A j \in cand :
              AreaAsI64(screens[j].frame, frame) <= AreaAsI64(screens[i].frame, frame)})

\* best_space_for_frame without the centre test
BestSpaceForFrame_AreaOnly(screens, frame, closed) ==
    LET cand == AreaCandidates(screens, frame)
    IN  IF cand # {} THEN screens[MaxByArea(screens, frame, cand)].space ELSE <<>>

BestSpaceForFrame(screens, frame, closed) ==
    LET hits == CenterHits(screens, frame, closed)
        cand == AreaCandidates(screens, frame)
    IN  IF hits # {} THEN screens[MinOf(hits)].space
        ELSE IF cand # {} THEN screens[MaxByArea(screens, frame, cand)].space
        ELSE <<>>

BsfInitPart(closed) ==
    bsf = [screens |-> <<>>, closed |-> closed, frame |-> <<>>, result |-> <<>>]

BsfIdle == BsfInitPart(TRUE)

\* handle_screen_parameters_changed stores the displays it was told about
BsfSetScreens(screens) ==
    /\ bsf.frame = <<>>
    /\ screens # bsf.screens
    /\ bsf' = [bsf EXCEPT !.screens = screens]
    /\ UNCHANGED NotBsfVars

\* a caller resolves a window frame: the call and the value it returns
BsfResolve(frame) ==
    /\ bsf.frame = <<>>
    /\ bsf' = [bsf EXCEPT !.frame = <<frame>>,
                          !.result = BestSpaceForFrame(bsf.screens, frame, bsf.closed)]
    /\ UNCHANGED NotBsfVars

\* the caller has taken the result
BsfReturn ==
    /\ bsf.frame # <<>>
    /\ bsf' = [bsf EXCEPT !.frame = <<>>, !.result = <<>>]
    /\ UNCHANGED NotBsfVars

BsfNext ==
    \/ \E screens \in BsfArrangements : BsfSetScreens(screens)
    \/ \E frame \in BsfFrames : BsfResolve(frame)
    \/ BsfReturn

(***************************************************************************)
(* SCROLLING LAYOUT SYSTEM: one layout's strip of columns                  *)
(* src/src/layout_engine/systems/scrolling.rs                              *)
(*                                                                         *)
(* Lengths are whole pixels, ratios are per cent, a scroll delta is given  *)
(* in halves of a step and the overscroll accumulator in twelfths of a     *)
(* step: with the screen widths, ratios, gaps and deltas below every       *)
(* quantity the code computes is a whole number of its unit.               *)
(***************************************************************************)
ScWindows == {"w1", "w2"}
ScScreenWidths == {4}           \* tiling widths handed to calculate_layout
ScGaps == {2}                   \* gaps.inner.horizontal
ScDeltas2 == {-1, 1}            \* ScrollStrip deltas, doubled
ScAmounts == {-50, 50}          \* resize_selection_by amounts
ScAlignments == {"Left", "Right"}
AccumScale == 12                \* accumulator units in one step

\* ScrollingLayoutSettings
ScSettingsSpace ==
    {s \in [column_width_ratio : {50}, min_column_width_ratio : {50},
            max_column_width_ratio : {100}, alignment : ScAlignments, niri : BOOLEAN,
            workspace_switch_threshold : {AccumScale \div 2}] :
        s.niri = (s.alignment = "Right")}

\* Column
Column(wid) == [windows |-> <<wid>>, width_offset |-> 0]

\* LayoutState::new
LayoutStateNew(column_width_ratio) ==
    [columns |-> <<>>, selected |-> None, column_width_ratio |-> column_width_ratio,
     scroll_offset_px |-> 0, pending_align |-> FALSE, pending_center_align |-> FALSE,
     pending_reveal_direction |-> 0, center_override_window |-> None,
     last_screen_width |-> 0, last_gap_x |-> 0, last_center_offset_delta_px |-> 0,
     overscroll_accumulation |-> 0]

\* f64::clamp
Clamp(x, lo, hi) == IF x < lo THEN lo ELSE IF x > hi THEN hi ELSE x

\* locate: the first column, and the row in it, that holds wid; <<>> when there is none
Locate(L, wid) ==
    LET hits == {i \in DOMAIN L.columns : wid \in Range(L.columns[i].windows)}
    IN  IF wid = None \/ hits = {} THEN <<>>
        ELSE LET c == MinOf(hits)
                 rows == {r \in DOMAIN L.columns[c].windows : L.columns[c].windows[r] = wid}
             IN  <<[col |-> c, row |-> MinOf(rows)]>>

\* selected_location
SelectedLocation(L) == Locate(L, L.selected)

\* first_window
FirstWindow(L) ==
    IF L.columns # <<>> /\ L.columns[1].windows # <<>> THEN L.columns[1].windows[1] ELSE None

\* clamp_ratio_with_bounds (and clamp_ratio, with the settings' bounds)
ClampRatioWithBounds(ratio, min_ratio, max_ratio) == Max(Clamp(ratio, min_ratio, max_ratio), 5)

\* column_widths_and_starts: the widths
ColumnWidths(L, screen_width, min_ratio, max_ratio) ==
    LET base_ratio == ClampRatioWithBounds(L.column_width_ratio, min_ratio, max_ratio)
    IN  [i \in DOMAIN L.columns |->
            Max((screen_width *
                 ClampRatioWithBounds(base_ratio + L.columns[i].width_offset, min_ratio, max_ratio))
                \div 100, 1)]

\* column_widths_and_starts: the starts (cursor += width + gap_x)
RECURSIVE SumTo(_, _, _)
SumTo(widths, gap_x, n) == IF n = 0 THEN 0 ELSE widths[n] + gap_x + SumTo(widths, gap_x, n - 1)
ColumnStarts(widths, gap_x) == [i \in DOMAIN widths |-> SumTo(widths, gap_x, i - 1)]

\* starts.last().unwrap_or(0.0)
BaseMaxOffset(starts) == IF starts = <<>> THEN 0 ELSE starts[Len(starts)]

\* (min_offset, max_offset), shifted while a centre override is active
MinOffset(L) == IF L.center_override_window # None THEN L.last_center_offset_delta_px ELSE 0
MaxOffset(L, starts) == BaseMaxOffset(starts) + MinOffset(L)

\* the column geometry scroll_by_delta and snap_to_nearest_column compute
CachedWidths(L, S) ==
    ColumnWidths(L, L.last_screen_width, S.min_column_width_ratio, S.max_column_width_ratio)
CachedStarts(L, S) == ColumnStarts(CachedWidths(L, S), L.last_gap_x)

\* widths.get(selected_idx).unwrap_or(1.0) + gap_x
ScrollStep(L, S) ==
    LET loc == SelectedLocation(L)
        idx == IF loc = <<>> THEN 1 ELSE loc[1].col
        widths == CachedWidths(L, S)
    IN  (IF idx \in DOMAIN widths THEN widths[idx] ELSE 1) + L.last_gap_x

\* scroll_by_delta returns early and leaves the state alone
ScrollReturnsEarly(L, S) ==
    L.last_screen_width <= 0 \/ L.columns = <<>> \/ ScrollStep(L, S) <= 0

\* a scroll_by_delta that clamps nothing (next = next_raw)
ScrollByDelta_Unclamped(L, S, delta2) ==
    IF ScrollReturnsEarly(L, S) THEN [state |-> L, ret |-> <<>>]
    ELSE [state |-> [L EXCEPT !.scroll_offset_px = @ + (delta2 * ScrollStep(L, S)) \div 2,
                              !.overscroll_accumulation = 0],
          ret |-> <<>>]

\* scroll_by_delta whose accumulator is never reset on a boundary hit
ScrollByDelta_NoReset(L, S, delta2) ==
    IF ScrollReturnsEarly(L, S) THEN [state |-> L, ret |-> <<>>]
    ELSE
    LET step == ScrollStep(L, S)
        min_offset == MinOffset(L)
        max_offset == MaxOffset(L, CachedStarts(L, S))
        next_raw == L.scroll_offset_px + (delta2 * step) \div 2
        L1 == [L EXCEPT !.scroll_offset_px = Clamp(next_raw, min_offset, max_offset)]
        left == next_raw < min_offset /\ delta2 < 0
        right == next_raw > max_offset /\ delta2 > 0
        overscroll == IF left THEN ((min_offset - next_raw) * AccumScale) \div step
                      ELSE ((next_raw - max_offset) * AccumScale) \div step
        accum == L.overscroll_accumulation + overscroll
    IN  IF left \/ right
        THEN [state |-> [L1 EXCEPT !.overscroll_accumulation = accum],
              ret |-> IF accum >= S.workspace_switch_threshold
                      THEN <<IF left THEN "Left" ELSE "Right">> ELSE <<>>]
        ELSE [state |-> [L1 EXCEPT !.overscroll_accumulation = 0], ret |-> <<>>]

\* scroll_by_delta: the new layout state and the boundary it reports, if any
ScrollByDelta(L, S, delta2) ==
    IF ScrollReturnsEarly(L, S) THEN [state |-> L, ret |-> <<>>]
    ELSE
    LET step == ScrollStep(L, S)
        min_offset == MinOffset(L)
        max_offset == MaxOffset(L, CachedStarts(L, S))
        next_raw == L.scroll_offset_px + (delta2 * step) \div 2
        L1 == [L EXCEPT !.scroll_offset_px = Clamp(next_raw, min_offset, max_offset)]
        left == next_raw < min_offset /\ delta2 < 0
        right == next_raw > max_offset /\ delta2 > 0
        overscroll == IF left THEN ((min_offset - next_raw) * AccumScale) \div step
                      ELSE ((next_raw - max_offset) * AccumScale) \div step
        accum == L.overscroll_accumulation + overscroll
    IN  IF left \/ right
        THEN IF accum >= S.workspace_switch_threshold
             THEN [state |-> [L1 EXCEPT !.overscroll_accumulation = 0],
                   ret |-> <<IF left THEN "Left" ELSE "Right">>]
             ELSE [state |-> [L1 EXCEPT !.overscroll_accumulation = accum], ret |-> <<>>]
        ELSE [state |-> [L1 EXCEPT !.overscroll_accumulation = 0], ret |-> <<>>]

\* |a - b|
AbsDiff(a, b) == IF a < b THEN b - a ELSE a - b

\* starts.iter().min_by(distance to strip_offset): the first of the nearest starts
NearestStart(starts, strip_offset) ==
    starts[MinOf({i \in DOMAIN starts : \A j \in DOMAIN starts :
                    AbsDiff(starts[i], strip_offset) <= AbsDiff(starts[j], strip_offset)})]

\* snap_to_nearest_column returns early and leaves the state alone
SnapReturnsEarly(L) == L.last_screen_width <= 0 \/ L.columns = <<>>

\* a snap that forgets the baseline of a centre override
SnapToNearestColumn_NoBaseline(L, S) ==
    IF SnapReturnsEarly(L) THEN L
    ELSE LET starts == CachedStarts(L, S)
         IN  [L EXCEPT !.scroll_offset_px =
                Clamp(NearestStart(starts, L.scroll_offset_px), MinOffset(L), MaxOffset(L, starts))]

\* snap_to_nearest_column
SnapToNearestColumn(L, S) ==
    IF SnapReturnsEarly(L) THEN L
    ELSE LET starts == CachedStarts(L, S)
             baseline == MinOffset(L)
             target == NearestStart(starts, L.scroll_offset_px - baseline)
         IN  [L EXCEPT !.scroll_offset_px =
                Clamp(baseline + target, MinOffset(L), MaxOffset(L, starts))]

\* align_scroll_to_selected
AlignScrollToSelected(L) ==
    IF L.center_override_window # None /\ L.center_override_window = L.selected
    THEN [L EXCEPT !.pending_center_align = TRUE, !.pending_reveal_direction = 0,
                   !.pending_align = FALSE]
    ELSE LET L1 == [L EXCEPT !.center_override_window = None, !.pending_center_align = FALSE,
                             !.pending_reveal_direction = 0]
         IN  IF SelectedLocation(L1) = <<>> THEN [L1 EXCEPT !.scroll_offset_px = 0]
             ELSE [L1 EXCEPT !.pending_align = TRUE]

\* request_center_on_selected
RequestCenterOnSelected(L) ==
    IF SelectedLocation(L) = <<>> THEN L
    ELSE IF L.center_override_window # None /\ L.center_override_window = L.selected
    THEN [L EXCEPT !.center_override_window = None, !.pending_center_align = FALSE,
                   !.pending_align = TRUE, !.pending_reveal_direction = 0]
    ELSE [L EXCEPT !.center_override_window = L.selected, !.pending_center_align = TRUE,
                   !.pending_align = FALSE, !.pending_reveal_direction = 0]

\* reveal_selected_in_direction / reveal_selected_without_direction (code 2)
RevealSelected(L, dir_code) ==
    [L EXCEPT !.center_override_window = None, !.pending_center_align = FALSE,
              !.pending_align = FALSE, !.pending_reveal_direction = dir_code]
DirCode(direction) == CASE direction = "Left" -> -1 [] direction = "Right" -> 1 [] OTHER -> 0

\* clamp_scroll_offset
ClampScrollOffset(L) ==
    IF L.columns = <<>> THEN [L EXCEPT !.scroll_offset_px = 0]
    ELSE [L EXCEPT !.pending_align = FALSE]

RemoveAt(s, i) == SubSeq(s, 1, i - 1) \o SubSeq(s, i + 1, Len(s))
LastOf(s) == s[Len(s)]

\* LayoutState::remove_window
StateRemoveWindow(L, wid) ==
    LET loc == Locate(L, wid)
    IN  IF loc = <<>> THEN L
        ELSE
        LET c == loc[1].col
            r == loc[1].row
            rest == RemoveAt(L.columns[c].windows, r)
            cols == IF rest = <<>> THEN RemoveAt(L.columns, c)
                    ELSE [L.columns EXCEPT ![c].windows = rest]
            \* the row's successor in the column now at the same index, else its last
            \* window, else the last window of the column before, else the first window
            here == IF c <= Len(cols)
                    THEN (IF r <= Len(cols[c].windows) THEN cols[c].windows[r]
                          ELSE LastOf(cols[c].windows))
                    ELSE None
            before == IF here = None /\ c > 1 THEN LastOf(cols[c - 1].windows) ELSE here
            L1 == [L EXCEPT !.columns = cols]
            sel == IF L.selected # wid THEN L.selected
                   ELSE IF before # None THEN before ELSE FirstWindow(L1)
        IN  ClampScrollOffset(
                [L1 EXCEPT !.selected = sel,
                           !.center_override_window = IF @ = wid THEN None ELSE @])

\* insert_column_after (index counted from 1) / insert_column_at_end
InsertColumnAfter(L, index, wid) ==
    AlignScrollToSelected(
        [L EXCEPT !.columns = InsertAt(L.columns, Min(index + 1, Len(L.columns) + 1), Column(wid)),
                  !.selected = wid])
InsertColumnAtEnd(L, wid) ==
    AlignScrollToSelected([L EXCEPT !.columns = Append(L.columns, Column(wid)), !.selected = wid])

\* ScrollingLayoutSystem::add_window_after_selection
ScAddWindowAfterSelection(L, wid) ==
    LET loc == SelectedLocation(L)
    IN  IF loc # <<>> THEN InsertColumnAfter(L, loc[1].col, wid)
        ELSE IF L.columns # <<>> THEN InsertColumnAfter(L, 1, wid)
        ELSE InsertColumnAtEnd(L, wid)

\* select_window
ScSelectWindow(L, S, wid) ==
    IF Locate(L, wid) = <<>> THEN L
    ELSE IF L.selected = wid /\ L.center_override_window = wid THEN L
    ELSE LET L1 == [L EXCEPT !.selected = wid]
         IN  IF S.niri THEN RevealSelected(L1, 2) ELSE AlignScrollToSelected(L1)

\* move_focus_horizontal / move_focus_vertical: the new selection, or None
MoveFocusTarget(L, direction) ==
    LET loc == SelectedLocation(L)
    IN  IF loc = <<>> THEN None
        ELSE
        LET c == loc[1].col
            r == loc[1].row
        IN  CASE direction = "Left" ->
                    IF c > 1 THEN L.columns[c - 1].windows[Min(r, Len(L.columns[c - 1].windows))]
                    ELSE None
              [] direction = "Right" ->
                    IF c < Len(L.columns)
                    THEN L.columns[c + 1].windows[Min(r, Len(L.columns[c + 1].windows))]
                    ELSE None
              [] direction = "Up" -> IF r > 1 THEN L.columns[c].windows[r - 1] ELSE None
              [] OTHER -> IF r < Len(L.columns[c].windows) THEN L.columns[c].windows[r + 1]
                          ELSE None

\* move_focus
ScMoveFocus(L, S, direction) ==
    LET new_sel == MoveFocusTarget(L, direction)
        L1 == IF new_sel = None THEN L ELSE [L EXCEPT !.selected = new_sel]
    IN  IF new_sel # None /\ S.niri
        THEN (IF direction \in {"Left", "Right"} THEN RevealSelected(L1, DirCode(direction))
              ELSE RevealSelected(L1, 2))
        ELSE AlignScrollToSelected(L1)

\* resize_selection_by
ScResizeSelectionBy(L, S, amount) ==
    LET loc == SelectedLocation(L)
        lo == S.min_column_width_ratio
        hi == S.max_column_width_ratio
    IN  IF loc = <<>>
        THEN [L EXCEPT !.column_width_ratio = Max(Clamp(@ + amount, lo, hi), 5)]
        ELSE
        LET c == loc[1].col
            next == L.column_width_ratio + L.columns[c].width_offset + amount
            L1 == [L EXCEPT !.columns[c].width_offset =
                                Max(Clamp(next, lo, hi), 5) - L.column_width_ratio]
        IN  IF S.niri THEN RevealSelected(L1, 2) ELSE AlignScrollToSelected(L1)

\* calculate_layout: what it stores in the layout state (the tiling area starts at x = 0)
ScCalculateLayout(L, S, width, gap_x) ==
    LET widths == ColumnWidths(L, width, S.min_column_width_ratio, S.max_column_width_ratio)
        starts == ColumnStarts(widths, gap_x)
        loc == SelectedLocation(L)
        idx == IF loc = <<>> THEN 1 ELSE loc[1].col
        base_ratio == ClampRatioWithBounds(L.column_width_ratio, S.min_column_width_ratio,
                                           S.max_column_width_ratio)
        selected_width == IF idx \in DOMAIN widths THEN widths[idx]
                          ELSE Max((width * base_ratio) \div 100, 1)
        center_anchor_x == (width - selected_width) \div 2
        anchor_x == IF S.niri /\ L.center_override_window = None THEN 0
                    ELSE CASE S.alignment = "Left" -> 0
                           [] S.alignment = "Center" -> center_anchor_x
                           [] OTHER -> width - selected_width
        center_offset_delta == anchor_x - center_anchor_x
        selected_start == IF loc = <<>> THEN 0 ELSE starts[loc[1].col]
        L1 == [L EXCEPT !.last_screen_width = width, !.last_gap_x = gap_x,
                        !.last_center_offset_delta_px = center_offset_delta]
        L2 == IF L1.pending_center_align
              THEN [L1 EXCEPT !.scroll_offset_px =
                                  IF loc = <<>> THEN 0 ELSE center_offset_delta + selected_start,
                              !.pending_center_align = FALSE, !.pending_align = FALSE]
              ELSE IF L1.pending_align
              THEN [L1 EXCEPT !.scroll_offset_px = selected_start, !.pending_align = FALSE]
              ELSE L1
        reveal == L2.pending_reveal_direction
        selected_x == anchor_x + selected_start - L2.scroll_offset_px
        to_left == anchor_x + selected_start
        to_right == anchor_x + selected_start + selected_width - width
        revealed == IF reveal = 1
                    THEN (IF selected_x + selected_width > width THEN to_right
                          ELSE IF selected_x < 0 THEN to_left ELSE L2.scroll_offset_px)
                    ELSE (IF selected_x < 0 THEN to_left
                          ELSE IF selected_x + selected_width > width THEN to_right
                          ELSE L2.scroll_offset_px)
        L3 == [L2 EXCEPT !.pending_reveal_direction = 0,
                         !.scroll_offset_px = IF reveal # 0 /\ loc # <<>> THEN revealed ELSE @]
    IN  [L3 EXCEPT !.scroll_offset_px = Clamp(@, MinOffset(L3), MaxOffset(L3, starts))]

ScDirections == {"Left", "Right"}

\* history: the operation that ran last, a scroll's delta, what it returned, whether it
\* got past its early returns, and whether it found overscroll accumulated by earlier calls
\* toward is the overscroll added to the accumulator in each direction since the accumulator
\* was last stored as zero, and tested is the part of what the call compared with the
\* threshold that was accumulated in the call's own direction
ScLast(op, arg, ret, applied, carried, toward, tested) ==
    [op |-> op, arg |-> arg, ret |-> ret, applied |-> applied, carried |-> carried,
     toward |-> toward, tested |-> tested]

NoOverscroll == [Left |-> 0, Right |-> 0]

\* the boundary a scroll_by_delta call runs past, and by how much
ScOverscroll(L, S, delta2) ==
    LET step == ScrollStep(L, S)
        next_raw == L.scroll_offset_px + (delta2 * step) \div 2
        lo == MinOffset(L)
        hi == MaxOffset(L, CachedStarts(L, S))
    IN  IF next_raw < lo /\ delta2 < 0
        THEN [dir |-> "Left", amount |-> ((lo - next_raw) * AccumScale) \div step]
        ELSE IF next_raw > hi /\ delta2 > 0
        THEN [dir |-> "Right", amount |-> ((next_raw - hi) * AccumScale) \div step]
        ELSE [dir |-> None, amount |-> 0]

ScInitPart(settings) ==
    /\ sc = LayoutStateNew(settings.column_width_ratio)
    /\ sc_settings = settings
    /\ sc_last = ScLast("new", 0, <<>>, FALSE, FALSE, NoOverscroll, 0)

ScIdle ==
    \E settings \in {s \in ScSettingsSpace : s.alignment = "Left" /\ ~s.niri} : ScInitPart(settings)

ScOther(L) ==
    /\ sc' = L
    /\ sc_last' = ScLast("other", 0, <<>>, TRUE, FALSE, sc_last.toward, 0)
    /\ UNCHANGED <<sc_settings, NotScVars>>

\* the engine adds a window the layout does not hold yet
ScOpAddWindowAfterSelection(wid) ==
    /\ Locate(sc, wid) = <<>>
    /\ ScOther(ScAddWindowAfterSelection(sc, wid))

ScOpRemoveWindow(wid) ==
    /\ Locate(sc, wid) # <<>>
    /\ ScOther(StateRemoveWindow(sc, wid))

ScOpSelectWindow(wid) ==
    /\ Locate(sc, wid) # <<>>
    /\ ScOther(ScSelectWindow(sc, sc_settings, wid))

ScOpMoveFocus(direction) == ScOther(ScMoveFocus(sc, sc_settings, direction))

ScOpResizeSelectionBy(amount) ==
    /\ sc.columns # <<>>
    /\ ScOther(ScResizeSelectionBy(sc, sc_settings, amount))

\* center_selected_column
ScOpCenterSelectedColumn == ScOther(RequestCenterOnSelected(sc))

ScOpCalculateLayout(width, gap_x) == ScOther(ScCalculateLayout(sc, sc_settings, width, gap_x))

ScOpScrollByDelta(delta2) ==
    LET res == ScrollByDelta(sc, sc_settings, delta2)
        early == ScrollReturnsEarly(sc, sc_settings)
        over == ScOverscroll(sc, sc_settings, delta2)
        added == IF over.dir = None THEN sc_last.toward
                 ELSE [sc_last.toward EXCEPT ![over.dir] = @ + over.amount]
    IN  /\ sc' = res.state
        /\ sc_last' = ScLast("scroll_by_delta", delta2, res.ret,
                             ~early, ~early /\ sc.overscroll_accumulation > 0,
                             IF early THEN sc_last.toward
                             ELSE IF res.state.overscroll_accumulation = 0 THEN NoOverscroll
                             ELSE added,
                             IF early \/ over.dir = None THEN 0 ELSE added[over.dir])
        /\ UNCHANGED <<sc_settings, NotScVars>>

ScOpSnapToNearestColumn ==
    /\ sc' = SnapToNearestColumn(sc, sc_settings)
    /\ sc_last' = ScLast("snap_to_nearest_column", 0, <<>>, ~SnapReturnsEarly(sc), FALSE,
                         sc_last.toward, 0)
    /\ UNCHANGED <<sc_settings, NotScVars>>

ScNext ==
    \/ \E wid \in ScWindows : ScOpAddWindowAfterSelection(wid)
    \/ \E wid \in ScWindows : ScOpRemoveWindow(wid)
    \/ \E wid \in ScWindows : ScOpSelectWindow(wid)
    \/ \E direction \in ScDirections : ScOpMoveFocus(direction)
    \/ \E amount \in ScAmounts : ScOpResizeSelectionBy(amount)
    \/ ScOpCenterSelectedColumn
    \/ \E width \in ScScreenWidths, gap_x \in ScGaps : ScOpCalculateLayout(width, gap_x)
    \/ \E delta2 \in ScDeltas2 : ScOpScrollByDelta(delta2)
    \/ ScOpSnapToNearestColumn

(***************************************************************************)
(* DISPLAY HISTORY: space remap when a display's space id changes          *)
(* src/src/actor/reactor/events/space.rs, src/src/actor/reactor.rs,        *)
(* src/src/layout_engine/engine.rs                                         *)
(*                                                                         *)
(* The part of the screen and space handlers that reads and writes the     *)
(* engine's display tables: the screens with their display UUIDs, the      *)
(* UUID -> last space table, the space -> UUID table, and the per-space     *)
(* layout state that remap_space moves.  All spaces are user spaces and     *)
(* Mission Control is inactive, so no space change is held back.  The       *)
(* per-space state (workspace contents and layout trees) is one token per   *)
(* space; its containers are not among the sources.                         *)
(***************************************************************************)
DhUuids == {"u1", "u2"}
DhSpaces == {"A", "B"}
DhTokens == {"t1", "t2"}

DhScreen(u, s) == [display_uuid |-> u, space |-> s]
DhOptSpaces == DhSpaces \cup {None}
\* ScreenParametersChanged carries the connected displays, each once
DhScreenLists ==
    {<<>>}
    \cup {<<DhScreen(u, s)>> : u \in DhUuids, s \in DhOptSpaces}
    \cup {l \in {<<DhScreen(u, s), DhScreen(v, t)>> :
                    u \in DhUuids, v \in DhUuids, s \in DhOptSpaces, t \in DhOptSpaces} :
            l[1].display_uuid # l[2].display_uuid}
DhSpaceVectors ==
    {<<>>} \cup {<<s>> : s \in DhOptSpaces} \cup {<<s, t>> : s \in DhOptSpaces, t \in DhOptSpaces}

DhUuidSet(screens) == {screens[i].display_uuid : i \in DOMAIN screens}
DhUuidSeq(screens) == [i \in DOMAIN screens |-> screens[i].display_uuid]
DhSpaceSeq(screens) == [i \in DOMAIN screens |-> screens[i].space]
\* HashMap<display uuid, space> of the screens that show a space
DhSpacesByDisplay(screens) ==
    [u \in DhUuids |->
        IF \E i \in DOMAIN screens : screens[i].display_uuid = u /\ screens[i].space # None
        THEN (CHOOSE i \in DOMAIN screens :
                screens[i].display_uuid = u /\ screens[i].space # None
                /\ \A j \in DOMAIN screens :
                      (screens[j].display_uuid = u /\ screens[j].space # None) => j <= i)
        ELSE 0]

\* LayoutEngine::new: the display tables
DhEngineNew ==
    [display_last_space |-> [u \in DhUuids |-> None],
     space_display_map |-> [s \in DhSpaces |-> None],
     store |-> [s \in DhSpaces |-> None]]

\* update_space_display(space, Some(uuid))
UpdateSpaceDisplay(E, space, uuid) ==
    [E EXCEPT !.space_display_map[space] = uuid, !.display_last_space[uuid] = space]

\* prune_display_state
PruneDisplayState(E, active) ==
    [E EXCEPT !.display_last_space =
                [u \in DhUuids |-> IF u \in active THEN E.display_last_space[u] ELSE None],
              !.space_display_map =
                [s \in DhSpaces |-> IF E.space_display_map[s] \in active
                                    THEN E.space_display_map[s] ELSE None]]

\* remap_space: the per-space state of old_space moves to new_space.  What happens to
\* state already held under new_space is decided by containers that are not among the
\* sources: `keep` says whether it survives.
RemapSpace(E, old_space, new_space, keep) ==
    IF old_space = new_space THEN E
    ELSE [E EXCEPT
            !.store = [s \in DhSpaces |->
                         IF s = old_space THEN None
                         ELSE IF s = new_space
                              THEN IF keep /\ E.store[new_space] # None
                                   THEN E.store[new_space] ELSE E.store[old_space]
                              ELSE E.store[s]],
            !.space_display_map =
                [s \in DhSpaces |->
                    IF E.space_display_map[old_space] = None THEN E.space_display_map[s]
                    ELSE IF s = old_space THEN None
                    ELSE IF s = new_space THEN E.space_display_map[old_space]
                    ELSE E.space_display_map[s]],
            !.display_last_space =
                [u \in DhUuids |-> IF E.display_last_space[u] = old_space
                                   THEN new_space ELSE E.display_last_space[u]]]

\* reconcile_spaces_with_display_history, from the i-th (screen, space) pair on
RECURSIVE ReconcileFrom(_, _, _, _, _, _, _)
ReconcileFrom(E, screens, spaces, allow_remap, keep, i, seen_displays) ==
    IF i > Min(Len(screens), Len(spaces)) THEN E
    ELSE LET space == spaces[i]
             display_uuid == screens[i].display_uuid
             seen_before == E.display_last_space[display_uuid] # None
             last_space == IF allow_remap /\ seen_before
                           THEN E.display_last_space[display_uuid] ELSE None
             remapped == IF allow_remap /\ last_space # None /\ last_space # space
                         THEN RemapSpace(E, last_space, space, keep) ELSE E
         IN  IF space = None \/ display_uuid \in seen_displays
             THEN ReconcileFrom(E, screens, spaces, allow_remap, keep, i + 1, seen_displays)
             ELSE ReconcileFrom(UpdateSpaceDisplay(remapped, space, display_uuid),
                                screens, spaces, allow_remap, keep, i + 1,
                                seen_displays \cup {display_uuid})

ReconcileSpacesWithDisplayHistory(E, screens, spaces, allow_remap, keep) ==
    ReconcileFrom(E, screens, spaces, allow_remap, keep, 1, {})

\* set_screen_spaces
DhSetScreenSpaces(screens, spaces) ==
    [i \in DOMAIN screens |->
        IF i <= Len(spaces) THEN DhScreen(screens[i].display_uuid, spaces[i]) ELSE screens[i]]

HasDuplicateSpaces(spaces) ==
    \E i \in DOMAIN spaces, j \in DOMAIN spaces : i # j /\ spaces[i] # None /\ spaces[i] = spaces[j]

\* history: the handler that ran last, and for each display the space it showed when it
\* was last among the screens
DhLast(op, screens) ==
    [op |-> op,
     shown |-> [u \in DhUuids |->
                  IF \E i \in DOMAIN screens :
                        screens[i].display_uuid = u /\ screens[i].space # None
                  THEN screens[DhSpacesByDisplay(screens)[u]].space
                  ELSE dh_last.shown[u]]]

DhInitPart ==
    /\ dh = [screens |-> <<>>, has_seen_display_set |-> FALSE,
             topology_relayout_pending |-> FALSE, engine |-> DhEngineNew]
    /\ dh_last = [op |-> "new", shown |-> [u \in DhUuids |-> None]]

DhIdle == DhInitPart

\* a test that would take every change of the display set for a topology transition
ShouldTriggerTopology_Always(topology_changed, has_seen_display_set, previous_displays) ==
    topology_changed
\* a change counts as a topology transition only once a display set is known
ShouldTriggerTopology(topology_changed, has_seen_display_set, previous_displays) ==
    topology_changed /\ (has_seen_display_set \/ previous_displays # {})

\* handle_screen_parameters_changed
DhScreenParametersChanged(screens, keep) ==
    LET previous_screens == dh.screens
        previous_displays == DhUuidSet(previous_screens)
        new_displays == DhUuidSet(screens)
        displays_changed == previous_displays # new_displays
        display_order_changed == DhUuidSeq(previous_screens) # DhUuidSeq(screens)
        prev_by == DhSpacesByDisplay(previous_screens)
        new_by == DhSpacesByDisplay(screens)
        display_space_changed ==
            \E u \in DhUuids :
                /\ prev_by[u] # 0 /\ new_by[u] # 0
                /\ screens[new_by[u]].space # previous_screens[prev_by[u]].space
        topology_changed == displays_changed \/ display_order_changed \/ display_space_changed
        should_trigger_topology ==
            ShouldTriggerTopology(topology_changed, dh.has_seen_display_set, previous_displays)
        pruned == IF displays_changed THEN PruneDisplayState(dh.engine, new_displays)
                  ELSE dh.engine
        spaces == DhSpaceSeq(screens)
        allow_space_remap ==
            /\ should_trigger_topology
            /\ ~HasDuplicateSpaces(spaces)
            /\ \A i \in DOMAIN spaces : spaces[i] # None
    IN  /\ dh' = [screens |-> screens,
                  has_seen_display_set |-> dh.has_seen_display_set \/ new_displays # {},
                  topology_relayout_pending |->
                      dh.topology_relayout_pending \/ should_trigger_topology,
                  engine |-> IF screens = <<>> THEN pruned
                             ELSE ReconcileSpacesWithDisplayHistory(
                                      pruned, screens, spaces, allow_space_remap, keep)]
        /\ dh_last' = DhLast("screen_parameters_changed", screens)
        /\ UNCHANGED NotDhVars

\* handle_space_changed
DhSpaceChanged(spaces) ==
    LET dropped ==
            \/ Len(spaces) > Len(dh.screens)
            \/ spaces = DhSpaceSeq(dh.screens) /\ ~dh.topology_relayout_pending
            \/ dh.topology_relayout_pending /\ Len(spaces) # Len(dh.screens)
        spaces_all_none == \A i \in DOMAIN spaces : spaces[i] = None
    IN  /\ IF dropped THEN dh' = dh
           ELSE IF spaces_all_none
           THEN dh' = [dh EXCEPT !.screens = IF Len(spaces) = Len(dh.screens)
                                             THEN DhSetScreenSpaces(dh.screens, spaces)
                                             ELSE dh.screens]
           ELSE IF Len(spaces) # Len(dh.screens) THEN dh' = dh
           ELSE dh' = [dh EXCEPT
                        !.engine = ReconcileSpacesWithDisplayHistory(
                                       dh.engine, dh.screens, spaces, FALSE, FALSE),
                        !.screens = DhSetScreenSpaces(dh.screens, spaces),
                        !.topology_relayout_pending = FALSE]
        /\ dh_last' = DhLast("space_changed", dh'.screens)
        /\ UNCHANGED NotDhVars

\* Event::ApplicationGloballyActivated of the login window
DhLoginWindowActivated ==
    /\ dh' = [dh EXCEPT !.engine = ReconcileSpacesWithDisplayHistory(
                                       dh.engine, dh.screens, DhSpaceSeq(dh.screens),
                                       FALSE, FALSE)]
    /\ dh_last' = DhLast("login_window_activated", dh.screens)
    /\ UNCHANGED NotDhVars

\* The engine builds or edits the state of a space that a screen shows (SpaceExposed and
\* the window events that follow it).
DhLayoutActivity(space, token) ==
    /\ \E i \in DOMAIN dh.screens : dh.screens[i].space = space
    /\ dh.engine.store[space] # token
    /\ dh' = [dh EXCEPT !.engine.store[space] = token]
    /\ dh_last' = DhLast("layout_activity", dh.screens)
    /\ UNCHANGED NotDhVars

DhNext ==
    \/ \E screens \in DhScreenLists, keep \in BOOLEAN : DhScreenParametersChanged(screens, keep)
    \/ \E spaces \in DhSpaceVectors : DhSpaceChanged(spaces)
    \/ DhLoginWindowActivated
    \/ \E space \in DhSpaces, token \in DhTokens : DhLayoutActivity(space, token)

(***************************************************************************)
(* TILED WINDOWS IN SCROLLING LAYOUTS                                      *)
(* src/src/layout_engine/engine.rs,                                        *)
(* src/src/layout_engine/systems/scrolling.rs                              *)
(*                                                                         *)
(* The engine's window events and commands on one space whose two          *)
(* workspaces use the scrolling layout, each with one layout: the columns  *)
(* of the two layouts, the window -> workspace assignment, the floating    *)
(* set and the focused window.  Events that arrive before the space is     *)
(* exposed find no layout and edit no columns; they are left to the engine *)
(* section above.  The number of columns of a layout is capped.            *)
(***************************************************************************)
TlWindows == {"w1"}
\* list_workspaces(space), in order
TlWorkspaceList == <<"wa", "wb">>
TlWorkspaces == Range(TlWorkspaceList)
TlSpaceArgs == {None, "s1"}
MaxColumns == 3

TlSettings ==
    CHOOSE s \in ScSettingsSpace : s.alignment = "Left" /\ ~s.niri

\* the positions <<column, row>> that hold wid
TlPositions(L, wid) ==
    {p \in UNION {{<<c, r>> : r \in DOMAIN L.columns[c].windows} : c \in DOMAIN L.columns} :
        L.columns[p[1]].windows[p[2]] = wid}

\* move_selected_window_vertical
MoveSelectedWindowVertical(L, dir) ==
    LET loc == SelectedLocation(L)
    IN  IF loc = <<>> THEN <<>>
        ELSE
        LET c == loc[1].col
            r == loc[1].row
            ws == L.columns[c].windows
            target == IF dir = "Up" THEN (IF r > 1 THEN r - 1 ELSE 0)
                      ELSE IF dir = "Down" THEN (IF r + 1 <= Len(ws) THEN r + 1 ELSE 0)
                      ELSE 0
            swapped == [ws EXCEPT ![r] = ws[target], ![target] = ws[r]]
        IN  IF target = 0 THEN <<>>
            ELSE <<[L EXCEPT !.columns[c].windows = swapped, !.selected = swapped[target]]>>

\* move_selected_window_horizontal, for Left and Right
MoveSelectedWindowHorizontal(L, dir) ==
    LET loc == SelectedLocation(L)
    IN  IF loc = <<>> THEN <<>>
        ELSE
        LET c == loc[1].col
            r == loc[1].row
            wid == L.columns[c].windows[r]
            taken == [L.columns EXCEPT ![c].windows = RemoveAt(@, r)]
            target_col == IF dir = "Left" THEN c - 1
                          ELSE IF c + 1 <= Len(L.columns) THEN c + 1 ELSE 0
        IN  IF Len(L.columns[c].windows) > 1
            THEN <<[L EXCEPT !.columns = InsertAt(taken, IF dir = "Left" THEN c ELSE c + 1,
                                                  Column(wid)),
                             !.selected = wid]>>
            ELSE IF target_col = 0 THEN <<>>
            ELSE <<[L EXCEPT !.columns = [L.columns EXCEPT ![c] = L.columns[target_col],
                                                           ![target_col] = L.columns[c]]]>>

\* ScrollingLayoutSystem::move_selection
ScMoveSelection(L, direction) ==
    LET moved == IF direction \in {"Left", "Right"}
                 THEN MoveSelectedWindowHorizontal(L, direction)
                 ELSE MoveSelectedWindowVertical(L, direction)
    IN  IF moved = <<>> THEN L ELSE AlignScrollToSelected(moved[1])

\* ScrollingLayoutSystem::remove_window: one located position per layout
TlRemoveFromTrees(T, wss, wid) ==
    [T EXCEPT !.layout = [ws \in TlWorkspaces |->
                            IF ws \in wss THEN StateRemoveWindow(T.layout[ws], wid)
                            ELSE T.layout[ws]]]

\* workspace_tree_mut(ws).add_window_after_selection(layout, wid)
TlAddToTree(T, ws, wid) ==
    [T EXCEPT !.layout[ws] = ScAddWindowAfterSelection(T.layout[ws], wid)]

\* contains_window
TlContainsWindow(T, ws, wid) == Locate(T.layout[ws], wid) # <<>>

TlRoom(T, ws) == Len(T.layout[ws].columns) < MaxColumns

\* LayoutEvent::WindowAdded: what it does to the columns, the assignment and the floating set
TlOnWindowAdded(T, wid) ==
    LET assigned_workspace == IF T.ws_of[wid] # None THEN T.ws_of[wid] ELSE T.active
        T1 == [T EXCEPT !.ws_of[wid] = assigned_workspace]
    IN  IF wid \in T.floating THEN T1
        ELSE IF ~TlContainsWindow(T1, assigned_workspace, wid)
        THEN TlAddToTree(T1, assigned_workspace, wid)
        ELSE T1

\* remove_window_internal
TlRemoveWindowInternal(T, wid, preserve_floating) ==
    LET ws_ids == IF T.ws_of[wid] # None THEN {T.ws_of[wid]} ELSE TlWorkspaces
        T1 == TlRemoveFromTrees(T, ws_ids, wid)
    IN  [T1 EXCEPT !.floating = IF preserve_floating THEN @ ELSE @ \ {wid},
                   !.ws_of[wid] = None,
                   !.focused = IF @ = wid THEN None ELSE @]

\* LayoutEvent::WindowFocused
TlOnWindowFocused(T, wid) ==
    LET T1 == [T EXCEPT !.focused = wid]
    IN  IF wid \in T.floating THEN T1
        ELSE [T1 EXCEPT !.layout[T.active] = ScSelectWindow(@, TlSettings, wid)]

\* handle_command: ToggleWindowFloating
TlOnToggleWindowFloating(T, space) ==
    LET wid == T.focused
        assigned_workspace == IF T.ws_of[wid] # None THEN T.ws_of[wid] ELSE T.active
    IN  IF wid = None THEN T
        ELSE IF wid \in T.floating
        THEN LET T1 == IF space # None THEN TlAddToTree(T, assigned_workspace, wid) ELSE T
             IN  [T1 EXCEPT !.floating = @ \ {wid}]
        ELSE LET T1 == IF space # None THEN TlRemoveFromTrees(T, {T.active}, wid) ELSE T
             IN  [T1 EXCEPT !.floating = @ \cup {wid}]

\* handle_virtual_workspace_command: MoveWindowToWorkspace of the focused window;
\* `assigned` is the answer of assign_window_to_workspace
TlOnMoveWindowToWorkspace(T, index, assigned) ==
    LET wid == T.focused
        target == TlWorkspaceList[index]
        current == T.ws_of[wid]
        is_floating == wid \in T.floating
        T1 == IF is_floating THEN T ELSE TlRemoveFromTrees(T, TlWorkspaces, wid)
        T2 == [T1 EXCEPT !.ws_of[wid] = target]
        T3 == IF is_floating THEN T2 ELSE TlAddToTree(T2, target, wid)
    IN  IF wid = None THEN T
        ELSE IF current = None \/ current = target THEN T
        ELSE IF ~assigned
        THEN (IF is_floating THEN T1 ELSE TlAddToTree(T1, current, wid))
        ELSE IF target = T.active THEN T3
        ELSE IF current = T.active THEN [T3 EXCEPT !.focused = None]
        ELSE T3

TlLast(op) == [op |-> op]

TlInitPart ==
    /\ tl = [exposed |-> FALSE, active |-> None,
             layout |-> [ws \in TlWorkspaces |-> LayoutStateNew(TlSettings.column_width_ratio)],
             ws_of |-> [w \in TlWindows |-> None], floating |-> {}, focused |-> None]
    /\ tl_last = TlLast("new")

TlIdle == TlInitPart

TlCall(op, T) ==
    /\ \A ws \in TlWorkspaces : Len(T.layout[ws].columns) <= MaxColumns
    /\ tl' = T
    /\ tl_last' = TlLast(op)
    /\ UNCHANGED NotTlVars

\* LayoutEvent::SpaceExposed: the workspaces are listed, the first becomes active, every
\* workspace gets its active layout
TlSpaceExposed ==
    /\ ~tl.exposed
    /\ TlCall("SpaceExposed", [tl EXCEPT !.exposed = TRUE, !.active = TlWorkspaceList[1]])

TlWindowAdded(wid) == tl.exposed /\ TlCall("WindowAdded", TlOnWindowAdded(tl, wid))
TlWindowRemoved(wid, preserve_floating) ==
    tl.exposed /\ TlCall("WindowRemoved", TlRemoveWindowInternal(tl, wid, preserve_floating))
TlWindowFocused(wid) == tl.exposed /\ TlCall("WindowFocused", TlOnWindowFocused(tl, wid))
TlToggleWindowFloating(space) ==
    tl.exposed /\ TlCall("ToggleWindowFloating", TlOnToggleWindowFloating(tl, space))
TlMoveNode(direction) ==
    /\ tl.exposed
    /\ TlCall("MoveNode",
              [tl EXCEPT !.layout[tl.active] = ScMoveSelection(@, direction)])
TlSwitchToWorkspace(index) ==
    /\ tl.exposed
    /\ TlCall("SwitchToWorkspace", [tl EXCEPT !.active = TlWorkspaceList[index]])
TlMoveWindowToWorkspace(index, assigned) ==
    /\ tl.exposed
    /\ TlCall("MoveWindowToWorkspace", TlOnMoveWindowToWorkspace(tl, index, assigned))

TlNext ==
    \/ TlSpaceExposed
    \/ \E wid \in TlWindows : TlWindowAdded(wid)
    \/ \E wid \in TlWindows, preserve_floating \in BOOLEAN : TlWindowRemoved(wid, preserve_floating)
    \/ \E wid \in TlWindows : TlWindowFocused(wid)
    \/ \E space \in TlSpaceArgs : TlToggleWindowFloating(space)
    \/ \E direction \in Directions : TlMoveNode(direction)
    \/ \E index \in DOMAIN TlWorkspaceList : TlSwitchToWorkspace(index)
    \/ \E index \in DOMAIN TlWorkspaceList, assigned \in BOOLEAN :
            TlMoveWindowToWorkspace(index, assigned)

(***************************************************************************)
(* DRAG AND SWAP: the drag state machine of the reactor                    *)
(* src/src/actor/reactor.rs, src/src/layout_engine/engine.rs               *)
(*                                                                         *)
(* Two displays side by side show the spaces "s1" and "s2"; both spaces    *)
(* were exposed before, each has one workspace with an active layout, and  *)
(* the two windows start on "s1".  A tree is the sequence of its windows;  *)
(* the selection is its last window.  An absent space, frame or session is *)
(* the empty sequence, a present one a sequence of length one.  What the   *)
(* window server says about a window's space and which candidate the swap  *)
(* manager finds overlapped are inputs of the step.                        *)
(***************************************************************************)
DgWindows == {"w1", "w2"}
\* the window the user drags; the other one stays where it is
DgDragged == {"w1"}
DgSpaces == {"s1", "s2"}
DgOptSpaces == {<<>>} \cup {<<s>> : s \in DgSpaces}
DgScreens ==
    <<ScreenRec(LeftDisplay, <<"s1">>), ScreenRec(Rect(3, 0, FrameMaxX, 3), <<"s2">>)>>
\* Frames a window is dragged through: two on the left display, one on the right, one
\* whose centre is on no display (it overlaps the left one), one of zero area.
DgFrames == {Rect(0, 0, 2, 2), Rect(1, 1, 3, 3), Rect(4, 0, 6, 2), Rect(1, 3, 6, 6),
             Rect(4, 1, 4, 1)}

\* the element of a one-element set: the value of a step, computed once
TheOne(S) == CHOOSE x \in S : TRUE
OrElse(a, b) == IF a # <<>> THEN a ELSE b
\* CGRect::area
DgArea(r) == (r.x1 - r.x0) * (r.y1 - r.y0)

\* drag_swap::DragManager::reset / new
SwapReset == [dragged |-> None, origin_frame |-> <<>>, last_target |-> None]
\* drag_swap::DragManager::on_frame_change: tracking starts anew for another window; the
\* target is the candidate whose overlap passes the threshold (`over`), if any
OnFrameChange(S, wid, frame, candidates, over) ==
    LET S0 == IF S.dragged # wid
              THEN [dragged |-> wid, origin_frame |-> <<frame>>, last_target |-> None]
              ELSE S
    IN  [S0 EXCEPT !.last_target = IF over \in candidates THEN over ELSE None]

\* DisplayTopologyManager::new
DgTopologyNew == [topology |-> "Stable", pre_known_wsids |-> {}, quarantined |-> 0]

\* Reactor::new with the two windows tiled or floating on "s1"
DgNew(floating) ==
    [drag_state |-> "Inactive", session |-> <<>>, target |-> None,
     swap |-> SwapReset,
     skip_layout_for_window |-> None,
     frames |-> [w \in DgWindows |-> IF w = "w1" THEN Rect(0, 0, 2, 2) ELSE Rect(1, 1, 3, 3)],
     topo |-> DgTopologyNew,
     tree |-> [s \in DgSpaces |->
                  IF s = "s1" THEN SeqKeep(<<"w1", "w2">>, DgWindows \ floating) ELSE <<>>],
     ws_of |-> [w \in DgWindows |-> "s1"],
     floating |-> floating,
     floating_pos |-> [w \in DgWindows |-> <<>>]]

\* Reactor::best_space_for_window: `os` is window_server::window_space of the window; both
\* spaces are on a screen
DgBestSpaceForWindow(frame, os) ==
    IF os # <<>> THEN os ELSE BestSpaceForFrame(DgScreens, frame, TRUE)

\* Reactor::drag_space_candidate
DragSpaceCandidate(frame) ==
    LET hits == CenterHits(DgScreens, frame, TRUE)
    IN  IF hits # {} THEN DgScreens[MinOf(hits)].space ELSE <<>>

\* resolve_drag_space answering with the space the drag started on
ResolveDragSpace_Origin(session, frame, os) == session.origin_space

\* Reactor::resolve_drag_space
ResolveDragSpace(session, frame, os) ==
    IF DgArea(frame) <= 0
    THEN OrElse(session.settled_space, DgBestSpaceForWindow(frame, os))
    ELSE OrElse(DragSpaceCandidate(frame),
                OrElse(DgBestSpaceForWindow(frame, os), session.settled_space))

Inactivated(D) == [D EXCEPT !.drag_state = "Inactive", !.session = <<>>, !.target = None]

\* Reactor::is_in_drag
IsInDrag(D) == D.drag_state \in {"Active", "PendingSwap"}

\* Reactor::take_active_drag_session: the state becomes Inactive, the session is handed out
TakeActiveDragSession(D) == [d |-> Inactivated(D), session |-> D.session]

\* Reactor::get_pending_drag_swap
GetPendingDragSwap(D) ==
    IF D.drag_state = "PendingSwap" THEN <<D.session[1].window, D.target>> ELSE <<>>

\* ensure_active_drag creating the session with a swap already pending
EnsureActiveDrag_Pending(D, wid, frame, os) ==
    [D EXCEPT !.drag_state = "PendingSwap",
              !.session = <<[window |-> wid, last_frame |-> frame,
                             origin_space |-> DgBestSpaceForWindow(frame, os),
                             settled_space |-> DgBestSpaceForWindow(frame, os),
                             layout_dirty |-> FALSE]>>,
              !.target = CHOOSE w \in DgWindows : w # wid,
              !.skip_layout_for_window = wid]

\* Reactor::ensure_active_drag
EnsureActiveDrag(D, wid, frame, os) ==
    LET needs_new_session ==
            IF D.drag_state = "Active" THEN D.session[1].window # wid ELSE TRUE
        origin_space == DgBestSpaceForWindow(frame, os)
        session == [window |-> wid, last_frame |-> frame, origin_space |-> origin_space,
                    settled_space |-> origin_space, layout_dirty |-> FALSE]
        D1 == IF needs_new_session
              THEN [D EXCEPT !.drag_state = "Active", !.session = <<session>>,
                             !.target = None]
              ELSE D
    IN  [D1 EXCEPT !.skip_layout_for_window = wid]

\* Reactor::update_active_drag
UpdateActiveDrag(D, wid, new_frame, os) ==
    IF D.drag_state # "Active" THEN D
    ELSE IF D.session[1].window # wid THEN D
    ELSE LET s == D.session[1]
             resolved_space == ResolveDragSpace(s, new_frame, os)
             frame_changed == s.last_frame # new_frame
             moved == s.settled_space # resolved_space
         IN  [D EXCEPT !.session = <<[s EXCEPT !.last_frame = new_frame,
                                               !.settled_space = resolved_space,
                                               !.layout_dirty = @ \/ frame_changed \/ moved]>>,
                       !.skip_layout_for_window = IF moved THEN s.window ELSE @]

\* LayoutEngine::is_window_in_active_workspace
IsWindowInActiveWorkspace(D, space, wid) == D.ws_of[wid] = space

\* remove_window_internal forgetting the assignment but leaving the trees alone
DgRemoveWindowInternal_KeepsTrees(D, wid) ==
    [D EXCEPT !.floating = @ \ {wid}, !.ws_of[wid] = None, !.floating_pos[wid] = <<>>]

\* LayoutEngine::remove_window_internal(wid, false)
DgRemoveWindowInternal(D, wid) ==
    LET from == IF D.ws_of[wid] # None THEN {D.ws_of[wid]} ELSE DgSpaces
    IN  [D EXCEPT !.tree = [s \in DgSpaces |->
                                IF s \in from THEN SeqWithout(D.tree[s], wid) ELSE D.tree[s]],
                  !.floating = @ \ {wid},
                  !.ws_of[wid] = None,
                  !.floating_pos[wid] = <<>>]

\* LayoutEvent::WindowAdded(space, wid); `auto_ok` is whether auto_assign_window succeeds
DgOnWindowAdded(D, space, wid, auto_ok) ==
    LET D1 == IF D.ws_of[wid] # space /\ auto_ok THEN [D EXCEPT !.ws_of[wid] = space] ELSE D
    IN  IF wid \in D1.floating THEN D1
        ELSE IF wid \notin Range(D1.tree[space])
        THEN [D1 EXCEPT !.tree[space] = Append(@, wid)]
        ELSE D1

\* LayoutCommand::SwapWindows(a, b) on the tree of `space`
DgSwapWindows(D, space, a, b) ==
    IF {a, b} \subseteq Range(D.tree[space])
    THEN [D EXCEPT !.tree[space] = SwapIn(@, a, b)]
    ELSE D

\* maybe_swap_on_drag exchanging the windows as soon as a target is found
MaybeSwapOnDrag_SwapsAtOnce(D, wid, new_frame, os, os_other, over) ==
    IF IsInDrag(D) /\ over # None /\ D.session[1].settled_space # <<>>
    THEN [DgSwapWindows(D, D.session[1].settled_space[1], wid, over)
            EXCEPT !.drag_state = "PendingSwap", !.target = over]
    ELSE D

\* Reactor::maybe_swap_on_drag: `os_other` is the window server's space for the other
\* windows
MaybeSwapOnDrag(D, wid, new_frame, os, os_other, over) ==
    LET active == D.drag_state = "Active"
        space == IF active
                 THEN OrElse(D.session[1].settled_space, DgBestSpaceForWindow(new_frame, os))
                 ELSE DgBestSpaceForWindow(new_frame, os)
        origin_space_hint ==
            OrElse(IF active THEN D.session[1].origin_space ELSE <<>>,
                   IF D.swap.origin_frame # <<>>
                   THEN DgBestSpaceForWindow(D.swap.origin_frame[1], os) ELSE <<>>)
        previous_pending == GetPendingDragSwap(D)
        mine == previous_pending # <<>> /\ previous_pending[1] = wid
        candidates ==
            {other \in DgWindows \ {wid} :
                /\ DgBestSpaceForWindow(D.frames[other], os_other) = space
                /\ IsWindowInActiveWorkspace(D, space[1], other)
                /\ other \notin D.floating}
        D1 == [D EXCEPT !.swap = OnFrameChange(@, wid, new_frame, candidates, over)]
        active_target == D1.swap.last_target
        take == TakeActiveDragSession(D1)
    IN  IF ~IsInDrag(D) THEN D
        ELSE IF space = <<>> THEN D
        ELSE IF origin_space_hint # <<>> /\ origin_space_hint # space
        THEN [(IF mine THEN Inactivated(D) ELSE D) EXCEPT !.swap = SwapReset]
        ELSE IF ~IsWindowInActiveWorkspace(D, space[1], wid) THEN D
        ELSE IF active_target # None
        THEN (IF take.session # <<>>
              THEN [take.d EXCEPT !.drag_state = "PendingSwap", !.session = take.session,
                                  !.target = active_target,
                                  !.skip_layout_for_window = wid]
              ELSE [take.d EXCEPT !.skip_layout_for_window = None])
        ELSE LET D2 == IF ~mine THEN D1
                       ELSE IF take.session # <<>>
                       THEN [take.d EXCEPT !.drag_state = "Active", !.session = take.session]
                       ELSE take.d
             IN  [D2 EXCEPT !.skip_layout_for_window = IF @ = wid THEN None ELSE @]

\* Reactor::finalize_active_drag; `assigned` is the answer of assign_window_to_workspace.
\* The result carries the layout events and engine calls made, in order.
FinalizeActiveDrag(D, os, assigned, auto_ok) ==
    LET take == TakeActiveDragSession(D)
        session == take.session[1]
        wid == session.window
        final_space ==
            OrElse(session.settled_space,
                   OrElse(BestSpaceForFrame(DgScreens, session.last_frame, TRUE),
                          DgBestSpaceForWindow(D.frames[wid], os)))
        cross == session.origin_space # final_space
        removes == cross /\ session.origin_space # <<>>
        adds == cross /\ final_space # <<>>
        D1 == IF removes THEN DgRemoveWindowInternal(take.d, wid) ELSE take.d
        D2 == IF adds /\ assigned THEN [D1 EXCEPT !.ws_of[wid] = final_space[1]] ELSE D1
        D3 == IF adds THEN DgOnWindowAdded(D2, final_space[1], wid, auto_ok) ELSE D2
        needs_layout == cross \/ session.layout_dirty
        D4 == IF needs_layout THEN [D3 EXCEPT !.skip_layout_for_window = wid] ELSE D3
        D5 == IF final_space # <<>> /\ wid \in D4.floating
              THEN [D4 EXCEPT !.floating_pos[wid] =
                                <<[space |-> final_space[1], frame |-> session.last_frame]>>]
              ELSE D4
    IN  IF take.session = <<>> THEN [d |-> take.d, needs_layout |-> FALSE, log |-> <<>>]
        ELSE [d |-> D5, needs_layout |-> needs_layout,
              log |-> (IF removes THEN <<"WindowRemoved">> ELSE <<>>)
                      \o (IF adds THEN <<"assign_window_to_workspace", "WindowAdded">>
                          ELSE <<>>)]

\* DragEventHandler::handle_mouse_up: the drag is finalized; if the window stayed in its
\* space and a swap target is pending, the two windows are swapped in place
HandleMouseUp(D, os, assigned, auto_ok) ==
    LET pending == GetPendingDragSwap(D)
        Swapped(F) ==
            LET swaps == pending # <<>> /\ F.log = <<>> /\ D.session[1].settled_space # <<>>
                D1 == IF swaps
                      THEN DgSwapWindows(F.d, D.session[1].settled_space[1],
                                         pending[1], pending[2])
                      ELSE F.d
            IN  [d |-> [Inactivated(D1) EXCEPT !.swap = SwapReset,
                                               !.skip_layout_for_window = None],
                 log |-> F.log \o (IF swaps THEN <<"SwapWindows">> ELSE <<>>)]
    IN  TheOne({Swapped(F) : F \in {FinalizeActiveDrag(D, os, assigned, auto_ok)}})

\* WindowEventHandler::handle_window_frame_changed with the mouse button down: the frame
\* is recorded; the first frame change of a drag creates the session; the session is
\* updated and a swap target looked for
HandleWindowFrameChanged(D, wid, new_frame, os, os_other, over) ==
    LET old_frame == D.frames[wid]
        D0 == [D EXCEPT !.frames[wid] = new_frame]
        Swap(D2, mid) ==
            [d |-> MaybeSwapOnDrag(D2, wid, new_frame, os, os_other, over), mid |-> mid]
        Update(D1) ==
            TheOne({Swap(D2, D1.drag_state) : D2 \in {UpdateActiveDrag(D1, wid, new_frame, os)}})
    IN  TheOne({Update(D1) :
                    D1 \in {IF IsInDrag(D) THEN D0
                            ELSE EnsureActiveDrag(D0, wid, old_frame, os)}})

\* the history: the event, whether the churn guard dropped it, the drag state the
\* handler passed through between the one before and the one after, the layout events
\* and engine calls it made
DgLast(op, dropped, mid, log) == [op |-> op, dropped |-> dropped, mid |-> mid, log |-> log]

DgInitPart(floating) ==
    /\ dg = DgNew(floating)
    /\ dg_last = DgLast("new", FALSE, "Inactive", <<>>)

DgIdle == DgInitPart({})

\* Reactor::handle_event: the churn guard comes before the handler
DgDropped(kind) == MaybeQuarantineDuringChurn(dg.topo, kind).hit

DgWindowFrameChanged(wid, new_frame, os, os_other, over) ==
    /\ new_frame # dg.frames[wid]
    /\ \E dropped \in {DgDropped("WindowFrameChanged")},
          H \in {HandleWindowFrameChanged(dg, wid, new_frame, os, os_other, over)} :
           /\ dg' = IF dropped THEN dg ELSE H.d
           /\ dg_last' = DgLast("WindowFrameChanged", dropped,
                                IF dropped THEN dg.drag_state ELSE H.mid, <<>>)
    /\ UNCHANGED NotDgVars

DgMouseUp(os, assigned, auto_ok) ==
    /\ \E dropped \in {DgDropped("MouseUp")},
          H \in {HandleMouseUp(dg, os, assigned, auto_ok)} :
           /\ dg' = IF dropped THEN dg ELSE H.d
           /\ dg_last' = DgLast("MouseUp", dropped, dg.drag_state,
                                IF dropped THEN <<>> ELSE H.log)
    /\ UNCHANGED NotDgVars

DgDisplayChurnBegin ==
    /\ dg' = [dg EXCEPT !.topo = BeginChurn(@, {})]
    /\ dg_last' = DgLast("DisplayChurnBegin", FALSE, dg.drag_state, <<>>)
    /\ UNCHANGED NotDgVars

DgDisplayChurnEnd ==
    /\ dg' = [dg EXCEPT !.topo = EndChurnToAwaiting(@)]
    /\ dg_last' = DgLast("DisplayChurnEnd", FALSE, dg.drag_state, <<>>)
    /\ UNCHANGED NotDgVars

\* a screen or space update commits the topology: every screen has its space again
DgTopologyCommitted ==
    /\ dg.topo.topology = "AwaitingCommit"
    /\ dg' = [dg EXCEPT !.topo = MarkStable(@)]
    /\ dg_last' = DgLast("ScreenParametersChanged", FALSE, dg.drag_state, <<>>)
    /\ UNCHANGED NotDgVars

DgNext ==
    \/ \E wid \in DgDragged, new_frame \in DgFrames, os \in DgOptSpaces,
          os_other \in {<<>>, <<"s1">>}, over \in (DgWindows \ DgDragged) \cup {None} :
            DgWindowFrameChanged(wid, new_frame, os, os_other, over)
    \/ \E os \in DgOptSpaces, assigned \in BOOLEAN, auto_ok \in BOOLEAN :
            DgMouseUp(os, assigned, auto_ok)
    \/ DgDisplayChurnBegin
    \/ DgDisplayChurnEnd
    \/ DgTopologyCommitted

(***************************************************************************)
(* LAYOUT RESPONSES AND WORKSPACE SWITCHES                                 *)
(* src/src/actor/reactor.rs (handle_layout_response,                       *)
(* handle_app_activation_workspace_switch, finalize_event_processing),     *)
(* src/src/actor/reactor/managers.rs (WorkspaceSwitchManager)              *)
(*                                                                         *)
(* The window table is fixed: "w1" has the window-server id "x1" and       *)
(* resolves to the space "s1", "w2" has no window-server id and resolves   *)
(* to "s2", "w3" is not in the table.  The active spaces, the visible      *)
(* window snapshot, the drag state and the topology state change.  What    *)
(* the layout engine answers, where the cursor is and whether a layout     *)
(* pass moved a window are inputs.  The deferred mouse warp is left out,   *)
(* and so is the second run of handle_layout_response that a boundary hit  *)
(* starts on the engine's answer to a workspace command.                   *)
(***************************************************************************)
LrWindowTable ==
    [w1 |-> [sys_id |-> <<"x1">>, space |-> "s1"],
     w2 |-> [sys_id |-> <<>>, space |-> "s2"]]
LrWindowIds == {"w1", "w2", "w3"}
LrOptWindows == {None} \cup LrWindowIds
LrActiveSpaceSets == {{}, {"s1"}, {"s1", "s2"}}
LrVisibleSets == {{}, {"x1"}}

\* layout::EventResponse, without boundary_hit
EventResponse(raise_windows, focus_window) ==
    [raise_windows |-> raise_windows, focus_window |-> focus_window]
LrRaiseSets == {{}, {"w1"}, {"w2"}, {"w1", "w3"}}
LrResponses ==
    {EventResponse(r, f) : r \in LrRaiseSets, f \in LrOptWindows}

\* what handle_layout_response asks of its surroundings when the response names no window
LrEnv(cursor, main, untracked, warp, last_focused) ==
    [cursor |-> cursor, main |-> main, untracked |-> untracked, warp |-> warp,
     last_focused |-> last_focused]
LrEnvs ==
    {LrEnv(c, m, u, w, l) : c \in {None, "w1", "w3"}, m \in {None, "w1"},
                            u \in BOOLEAN, w \in BOOLEAN, l \in {None, "w1"}}
LrNoEnv == LrEnv(None, None, FALSE, FALSE, None)

\* a response with what the handler finds around it; the surroundings are looked at only
\* when the response names no window
LrInputs ==
    {[response |-> r, env |-> LrNoEnv] : r \in LrResponses \ {EventResponse({}, None)}}
        \cup {[response |-> EventResponse({}, None), env |-> e] : e \in LrEnvs}

\* ---- WorkspaceSwitchManager ----
StartWorkspaceSwitch(L, origin) ==
    [L EXCEPT !.active_workspace_switch = TRUE,
              !.workspace_switch_state = "Active",
              !.pending_workspace_switch_origin = origin]

ManualSwitchInProgress(L) ==
    L.workspace_switch_state = "Active" /\ L.pending_workspace_switch_origin = "Manual"

MarkWorkspaceSwitchInactive(L) ==
    [L EXCEPT !.workspace_switch_state = "Inactive",
              !.pending_workspace_switch_origin = None]

\* ---- Reactor ----
LrIsInDrag(L) == L.drag

LrIsChurningOrAwaitingCommit(L) == L.topology \in {"Churning", "AwaitingCommit"}

\* best_space_for_window of a window in the table
LrBestSpaceForWindow(wid) == LrWindowTable[wid].space

IsWindowOnActiveSpace(L, wid) ==
    /\ wid \in DOMAIN LrWindowTable
    /\ LrBestSpaceForWindow(wid) \in L.active_spaces

\* the focus window after the visibility test of handle_layout_response
VisibleFocus_Unchecked(L, focus_window) == focus_window
VisibleFocus(L, focus_window) ==
    IF focus_window = None \/ focus_window \notin DOMAIN LrWindowTable THEN focus_window
    ELSE IF LrWindowTable[focus_window].sys_id = <<>> THEN focus_window
    ELSE IF /\ L.workspace_switch_state = "Inactive"
            /\ LrWindowTable[focus_window].sys_id[1] \notin L.visible_windows
         THEN None
    ELSE IF LrBestSpaceForWindow(focus_window) \notin L.active_spaces THEN None
    ELSE focus_window

\* the window under the cursor, the untracked window under it, or the warp to the centre
\* of the screen: [focus |-> a window or None, handled |-> handled_without_raise]
CursorFallback(env, skip_main) ==
    IF env.cursor # None
    THEN [focus |-> IF skip_main /\ env.main = env.cursor THEN None ELSE env.cursor,
          handled |-> FALSE]
    ELSE [focus |-> None, handled |-> env.untracked \/ env.warp]

\* the focus window chosen when the response names no window:
\* [focus, handled, pending |-> what is left of the pending refocus]
FocusFallback(L, pending, env) ==
    IF L.workspace_switch_state = "Active"
    THEN [focus |-> CursorFallback(env, TRUE).focus,
          handled |-> CursorFallback(env, TRUE).handled, pending |-> pending]
    ELSE IF pending = "Pending"
    THEN IF env.last_focused # None
         THEN [focus |-> env.last_focused, handled |-> FALSE, pending |-> "None"]
         ELSE [focus |-> CursorFallback(env, FALSE).focus,
               handled |-> CursorFallback(env, FALSE).handled, pending |-> "None"]
    ELSE [focus |-> None, handled |-> FALSE, pending |-> pending]

RaiseRequest(L, raise_windows, focus_window, response) ==
    [raise_windows |-> raise_windows, focus_window |-> focus_window,
     response |-> response, switching |-> L.workspace_switch_state = "Active"]

\* X is [l |-> the reactor's fields, req |-> the raise requests sent so far by this event]
HandleLayoutResponse(X, response, env) ==
    LET L == X.l IN
    IF LrIsInDrag(L) THEN [X EXCEPT !.l = MarkWorkspaceSwitchInactive(L)]
    ELSE
    LET pending0 == L.refocus_state
        L1 == [L EXCEPT !.refocus_state = "None"]
        empty == response.raise_windows = {} /\ response.focus_window = None
        fb == IF empty THEN FocusFallback(L1, pending0, env)
              ELSE [focus |-> response.focus_window, handled |-> FALSE,
                    pending |-> pending0]
        focus1 == VisibleFocus(L1, fb.focus)
    IN  IF fb.handled /\ response.raise_windows = {} /\ focus1 = None
        THEN [X EXCEPT !.l = MarkWorkspaceSwitchInactive(L1)]
        ELSE
        LET L2 == [L1 EXCEPT !.refocus_state = fb.pending] IN
        IF /\ response.raise_windows = {} /\ focus1 = None
           /\ L2.workspace_switch_state = "Inactive"
        THEN [X EXCEPT !.l = L2]
        ELSE
        LET raise_windows == {w \in response.raise_windows : IsWindowOnActiveSpace(L2, w)}
            focus_window == IF focus1 # None /\ IsWindowOnActiveSpace(L2, focus1)
                            THEN focus1 ELSE None
        IN  [l |-> L2,
             req |-> Append(X.req, RaiseRequest(L2, raise_windows, focus_window, response))]

\* the part of handle_app_activation_workspace_switch that decides; needed says that the
\* activated application's window is on a workspace that is not the active one
HandleAppActivationWorkspaceSwitch(X, needed, response, env) ==
    IF X.l.active_workspace_switch THEN X
    ELSE IF ManualSwitchInProgress(X.l) THEN X
    ELSE IF ~needed THEN X
    ELSE HandleLayoutResponse([X EXCEPT !.l = StartWorkspaceSwitch(@, "Auto")],
                              response, env)

\* send_layout_event; hidden says that prepare_refocus_after_layout_event found a window
\* of a workspace that is not the active one
SendLayoutEvent(X, hidden, response, env) ==
    HandleLayoutResponse(
        [X EXCEPT !.l.refocus_state = IF hidden THEN "Pending" ELSE @], response, env)

\* raised is empty or holds the response of the engine to WindowFocused for the raised window
LrFinalizeEventProcessing(X, raised, env, layout_changed) ==
    IF LrIsChurningOrAwaitingCommit(X.l) THEN X
    ELSE
    LET X1 == IF raised = <<>> THEN X ELSE SendLayoutEvent(X, FALSE, raised[1], env)
        changed == ~LrIsInDrag(X1.l) /\ layout_changed
        L2 == MarkWorkspaceSwitchInactive(X1.l)
    IN  [X1 EXCEPT !.l = [L2 EXCEPT !.active_workspace_switch = @ /\ changed]]

LrNew ==
    [active_spaces |-> {}, visible_windows |-> {},
     workspace_switch_state |-> "Inactive", pending_workspace_switch_origin |-> None,
     active_workspace_switch |-> FALSE, refocus_state |-> "None",
     drag |-> FALSE, topology |-> "Stable"]

LrIdle ==
    /\ lr = LrNew
    /\ lr_last = [kind |-> "none", requests |-> <<>>]

LrStep(kind, X) ==
    /\ lr' = X.l
    /\ lr_last' = [kind |-> kind, requests |-> X.req]
    /\ UNCHANGED NotLrVars

LrStart == [l |-> lr, req |-> <<>>]

\* ---- handle_event, one action per kind of event ----
LrDisplayChurnBegin ==
    /\ lr.topology = "Stable"
    /\ LrStep("DisplayChurnBegin", [LrStart EXCEPT !.l.topology = "Churning"])

LrDisplayChurnEnd ==
    /\ lr.topology = "Churning"
    /\ LrStep("DisplayChurnEnd", [LrStart EXCEPT !.l.topology = "AwaitingCommit"])

\* a screen or space update: the active spaces and the visible windows as reported, and
\* the topology commit when one is due
LrSpaceUpdate(active, visible, commit, layout_changed) ==
    /\ commit => lr.topology = "AwaitingCommit"
    /\ LrStep("SpaceChanged",
              LrFinalizeEventProcessing(
                  [LrStart EXCEPT !.l.active_spaces = active,
                                  !.l.visible_windows = visible,
                                  !.l.topology = IF commit THEN "Stable" ELSE @],
                  <<>>, LrNoEnv, layout_changed))

\* ApplicationActivated, processed during churn as well; its handler calls
\* handle_app_activation_workspace_switch
LrApplicationActivated(needed, response, env, layout_changed) ==
    LrStep("ApplicationActivated",
           LrFinalizeEventProcessing(
               HandleAppActivationWorkspaceSwitch(LrStart, needed, response, env),
               <<>>, LrNoEnv, layout_changed))

\* ApplicationMainWindowChanged with a raised window, processed during churn as well
LrMainWindowChanged(response, env, layout_changed) ==
    LrStep("ApplicationMainWindowChanged",
           LrFinalizeEventProcessing(LrStart, <<response>>, env, layout_changed))

\* WindowsDiscovered, held back during churn: process_windows_for_app_rules sends
\* WindowsOnScreenUpdated
LrWindowsDiscovered(hidden, response, env, layout_changed) ==
    /\ ~LrIsChurningOrAwaitingCommit(lr)
    /\ LrStep("WindowsDiscovered",
              LrFinalizeEventProcessing(
                  SendLayoutEvent(LrStart, hidden, response, env),
                  <<>>, LrNoEnv, layout_changed))

\* WindowFrameChanged with the mouse down, held back during churn: a drag begins
LrDragBegins ==
    /\ ~LrIsChurningOrAwaitingCommit(lr)
    /\ ~lr.drag
    /\ LrStep("WindowFrameChanged",
              LrFinalizeEventProcessing([LrStart EXCEPT !.l.drag = TRUE],
                                        <<>>, LrNoEnv, FALSE))

\* MouseUp, held back during churn: the drag ends
LrMouseUp(layout_changed) ==
    /\ ~LrIsChurningOrAwaitingCommit(lr)
    /\ lr.drag
    /\ LrStep("MouseUp",
              LrFinalizeEventProcessing([LrStart EXCEPT !.l.drag = FALSE],
                                        <<>>, LrNoEnv, layout_changed))

LrNext ==
    \/ LrDisplayChurnBegin
    \/ LrDisplayChurnEnd
    \/ \E active \in LrActiveSpaceSets, visible \in LrVisibleSets,
          commit \in BOOLEAN, layout_changed \in BOOLEAN :
            LrSpaceUpdate(active, visible, commit, layout_changed)
    \/ \E needed \in BOOLEAN, in \in LrInputs, layout_changed \in BOOLEAN :
            LrApplicationActivated(needed, in.response, in.env, layout_changed)
    \/ \E in \in LrInputs, layout_changed \in BOOLEAN :
            LrMainWindowChanged(in.response, in.env, layout_changed)
    \/ \E hidden \in BOOLEAN, in \in LrInputs, layout_changed \in BOOLEAN :
            LrWindowsDiscovered(hidden, in.response, in.env, layout_changed)
    \/ LrDragBegins
    \/ \E layout_changed \in BOOLEAN : LrMouseUp(layout_changed)

(***************************************************************************)
(* SPECIFICATIONS                                                          *)
(***************************************************************************)
\* the components added after the reactor, at rest
ExtIdle == BsfIdle /\ ScIdle /\ DhIdle /\ TlIdle /\ DgIdle /\ LrIdle

MsIdle == \E settings \in {[master_count |-> 1, master_side |-> "Left", new_window_placement |-> "Master"]} :
            MsInitPart(settings)

InitNotification == NcInitPart /\ MsIdle /\ EngInitPart /\ RxInitPart /\ ExtIdle
SpecNotification == InitNotification /\ [][NcNext]_vars

\* The main dispatch queue runs every callback it was given (after_f_s): a stabilization
\* check that is queued fires.
SpecStabilization ==
    /\ InitNotification
    /\ [][StNext]_vars
    /\ WF_vars(\E t \in stabilize_timers, seen \in CollectOutcomes, quiet \in BOOLEAN :
                    StCallback(t, seen, quiet))

InitMasterStack ==
    /\ NcInitPart /\ EngInitPart /\ RxInitPart /\ ExtIdle
    /\ \E settings \in MsSettingsSpace : MsInitPart(settings)
SpecMasterStack == InitMasterStack /\ [][MsNext]_vars
\* Layouts filled window by window, then master_count raised.
InitMasterStackFill ==
    /\ NcInitPart /\ EngInitPart /\ RxInitPart /\ ExtIdle
    /\ \E settings \in MsSettingsSpace : MsInitPart(settings)
SpecMasterStackFill == InitMasterStackFill /\ [][MsFillNext]_vars

InitEngine == NcInitPart /\ MsIdle /\ EngInitPart /\ RxInitPart /\ ExtIdle
SpecEngine == InitEngine /\ [][EngNext]_vars

\* The handlers, one event after the other.
InitReactor == NcInitPart /\ MsIdle /\ EngInitPart /\ RxInitPart /\ ExtIdle
SpecReactor == InitReactor /\ [][RxNext]_vars

\* The channel in front of the loop: senders, query clients, and the loop taking one item
\* at a time while no window exists.
QueueNext ==
    \/ SendEvent
    \/ SendQuery
    \/ Recv
    \/ AnswerQuery
    \/ \E kind \in {"DisplayChurnBegin", "DisplayChurnEnd", "MissionControlNativeEntered"} :
            DequeuedStep(Ev(kind, "x1", "s1", <<>>), NoOsView)
    \/ \E kind \in {"ScreenParametersChanged", "SpaceChanged"}, spaces \in RxVectors :
            DequeuedStep(Ev(kind, "x1", "s1", spaces), NoOsView)

InitQueue == NcInitPart /\ MsIdle /\ EngInitPart /\ RxInitPart /\ ExtIdle
SpecQueue == InitQueue /\ [][QueueNext]_vars

\* Frames resolved against each display arrangement, under either edge rule.
InitFrame ==
    /\ NcInitPart /\ MsIdle /\ EngInitPart /\ RxInitPart
    /\ \E closed \in BOOLEAN : BsfInitPart(closed)
    /\ ScIdle /\ DhIdle /\ TlIdle /\ DgIdle /\ LrIdle
SpecFrame == InitFrame /\ [][BsfNext]_vars

\* One scrolling layout under each choice of alignment and navigation style.
InitScroll ==
    /\ NcInitPart /\ MsIdle /\ EngInitPart /\ RxInitPart /\ BsfIdle /\ DhIdle /\ TlIdle /\ DgIdle /\ LrIdle
    /\ \E settings \in ScSettingsSpace : ScInitPart(settings)
SpecScroll == InitScroll /\ [][ScNext]_vars

\* Screen and space updates with display UUIDs, and the engine's per-space state.
InitDisplayHistory ==
    /\ NcInitPart /\ MsIdle /\ EngInitPart /\ RxInitPart /\ BsfIdle /\ ScIdle /\ TlIdle /\ DgIdle /\ LrIdle
    /\ DhInitPart
SpecDisplayHistory == InitDisplayHistory /\ [][DhNext]_vars

\* Window events and commands on a space with scrolling layouts.
InitTiling ==
    /\ NcInitPart /\ MsIdle /\ EngInitPart /\ RxInitPart /\ BsfIdle /\ ScIdle /\ DhIdle /\ DgIdle /\ LrIdle
    /\ TlInitPart
SpecTiling == InitTiling /\ [][TlNext]_vars

\* Drags of the two windows, tiled or with the first one floating.
InitDrag ==
    /\ NcInitPart /\ MsIdle /\ EngInitPart /\ RxInitPart
    /\ BsfIdle /\ ScIdle /\ DhIdle /\ TlIdle /\ LrIdle
    /\ \E floating \in {{}, {"w1"}} : DgInitPart(floating)
SpecDrag == InitDrag /\ [][DgNext]_vars

\* Layout responses, application activations and workspace switches in every topology state.
InitLayoutResponse == NcInitPart /\ MsIdle /\ EngInitPart /\ RxInitPart /\ ExtIdle
SpecLayoutResponse == InitLayoutResponse /\ [][LrNext]_vars

(***************************************************************************)
(* C5: in a Master-Stack layout, after every structural mutation the       *)
(* master container holds exactly min(master_count, total_windows)         *)
(* windows.  Stated for every live layout in every reachable state (each   *)
(* state is the state after some sequence of mutations).                   *)
(***************************************************************************)
C5_MasterHoldsMin ==
    \A l \in LayoutIds :
        Live(l) =>
            /\ ValidStructure(ms_layouts[l])
            /\ Len(MasterOf(ms_layouts[l], ms_settings))
                 = Min(ms_settings.master_count, Len(AllWindowsInLayout(ms_layouts[l])))

(***************************************************************************)
(* C8: a stabilization re-check callback that fires after the churn epoch  *)
(* has advanced past the epoch it was issued for changes no state of the   *)
(* notification layer, sends no event (no DisplayChurnEnd) and schedules   *)
(* no further retry: it is only removed from the queue of callbacks.       *)
(***************************************************************************)
C8_StaleCallbackIsNoOp ==
    [][ (/\ nc_last'.op = "attempt_finish"
         /\ stabilize_timers' # stabilize_timers
         /\ \E t \in stabilize_timers \ stabilize_timers' :
                t.epoch # display_churn_epoch)
        => (/\ UNCHANGED <<display_churn_active, display_churn_epoch, display_churn_flags,
                           display_topology_state, refresh_pending,
                           refresh_deferred_until_stable, last_sent_spaces, refresh_timers>>
            /\ nc_last'.sent = <<>>
            /\ stabilize_timers' \subseteq stabilize_timers) ]_vars

\* A stale callback has fired while a newer churn is still active: only the epoch
\* comparison keeps it from ending that churn.
C8_Witness ==
    /\ nc_last.op = "attempt_finish"
    /\ nc_last.stale
    /\ nc_last.expected_epoch < display_churn_epoch
    /\ display_churn_active

(***************************************************************************)
(* C3: after any sequence of layout events and commands every window is in *)
(* at most one place: the tiling tree of at most one workspace, or the     *)
(* floating set, never a tree and the floating set together and never the  *)
(* trees of two workspaces.                                                *)
(***************************************************************************)
C3_WindowInAtMostOnePlace ==
    \A w \in EngWindows :
        Cardinality({ws \in Workspaces : InTree(eng, ws, w)})
            + (IF w \in eng.floating THEN 1 ELSE 0) <= 1

(***************************************************************************)
(* C9: no LayoutEvent or LayoutCommand handled by the layout engine panics *)
(* when a lookup misses; every miss is handled by an early return.         *)
(***************************************************************************)
C9_NoPanicOnLookupMiss == ~eng_panicked

\* the membership state C10 speaks of: trees, floating set, workspace assignments
Membership(E) == <<E.tree, E.floating, E.ws_of>>
\* the (active workspace, active layout) pair of `space` is absent
Unresolved(E, space) ==
    \/ space = None
    \/ E.active[space] = None
    \/ E.active[space] \notin E.layouts
\* a mutating event or command of the engine that is given `space`
MutatingCallOn(space) ==
    \/ \E cmd \in {"ToggleWindowFloating", "NextWindow"} :
            CmdHandleCommand(space, cmd, TRUE, None, {})
    \/ \E new_space \in EngSpaces \cup {None}, under \in SUBSET EngWindows :
            CmdHandleCommand(space, "MoveNode", FALSE, new_space, under)
    \/ /\ space \in EngSpaces
       /\ \/ \E wid \in EngWindows, auto_ok \in BOOLEAN : EvWindowAdded(space, wid, auto_ok)
          \/ \E pid \in EngPids, out \in RuleOutcomes(space) :
                EvWindowsOnScreenUpdated(space, pid, TRUE, out)
          \/ \E index \in 1..2, maybe_id \in EngWindows \cup {None}, assigned \in BOOLEAN :
                CmdMoveWindowToWorkspace(space, index, maybe_id, assigned)

RxTables(R) == <<R.window_ids, R.window_server_info, R.visible_windows,
                 R.observed_window_server_ids>>

(***************************************************************************)
(* C1: while the topology manager reports churning or awaiting-commit, a   *)
(* WindowServerAppeared, WindowServerDestroyed or ResyncAppForWindow event *)
(* taken from the queue is not applied: the window tables and the          *)
(* window-server-id tables are as before, nothing is sent to the layout    *)
(* engine or anyone else, and of the Reactor's fields only the topology    *)
(* manager's quarantine record changes.                                    *)
(***************************************************************************)
C1_QuarantinedEventNotApplied ==
    [][ (rx_last'.kind \in QuarantinedKinds /\ IsChurningOrAwaitingCommit(rx))
            => /\ RxTables(rx') = RxTables(rx)
               /\ rx_last'.out = {}
               /\ rx' = [rx EXCEPT !.quarantined = @ + 1] ]_vars

\* A destroy event for a registered window was held back during a churn: the window is
\* still in the tables.
C1_Witness ==
    /\ rx_last.kind = "WindowServerDestroyed"
    /\ IsChurningOrAwaitingCommit(rx)
    /\ rx.quarantined > 0
    /\ rx.window_ids # {}

\* how often the commit recorded in the history synthesized `kind` for `wsid`
SynCount(kind, wsid) ==
    Cardinality({i \in DOMAIN rx_last.commit.syn : rx_last.commit.syn[i] = <<kind, wsid>>})

C4_OnlyMatchingLengthApplied ==
    [][ (rx_last'.kind = "SpaceChanged" /\ rx_last'.len # "equal")
            => /\ rx'.screens = rx.screens
               /\ rx'.active_spaces = rx.active_spaces ]_vars

BsfResolved == bsf.frame # <<>>
BsfFrame == bsf.frame[1]
InsideRect(inner, outer) ==
    /\ outer.x0 <= inner.x0 /\ inner.x1 <= outer.x1
    /\ outer.y0 <= inner.y0 /\ inner.y1 <= outer.y1
CentreInSpacedScreen == CenterHits(bsf.screens, BsfFrame, bsf.closed) # {}

\* C11 as stated: for a frame that overlaps two screens, best_space_for_frame returns the
\* space of the screen whose intersection with the frame has the strictly larger area.
C11_LargerIntersectionWins ==
    BsfResolved =>
        \A i, j \in DOMAIN bsf.screens :
            (/\ i # j
             /\ bsf.screens[i].space # <<>> /\ bsf.screens[j].space # <<>>
             /\ IntersectionArea4(bsf.screens[j].frame, BsfFrame) > 0
             /\ IntersectionArea4(bsf.screens[i].frame, BsfFrame) >
                    IntersectionArea4(bsf.screens[j].frame, BsfFrame))
            => bsf.result = bsf.screens[i].space

\* C11, amended: when the frame's centre lies in no screen that has a space, and the frame
\* overlaps two screens that both have a space, best_space_for_frame returns the space of
\* the one whose intersection has the strictly larger area in whole square points.
C11_LargerIntersectionWinsOffCentre ==
    (BsfResolved /\ ~CentreInSpacedScreen) =>
        \A i, j \in DOMAIN bsf.screens :
            (/\ i # j
             /\ bsf.screens[i].space # <<>> /\ bsf.screens[j].space # <<>>
             /\ AreaAsI64(bsf.screens[j].frame, BsfFrame) > 0
             /\ AreaAsI64(bsf.screens[i].frame, BsfFrame) >
                    AreaAsI64(bsf.screens[j].frame, BsfFrame))
            => bsf.result = bsf.screens[i].space

\* the centre is in neither of two screens the frame overlaps, and the first in the list,
\* which has the larger intersection, wins
C11_Witness ==
    /\ BsfResolved /\ ~CentreInSpacedScreen
    /\ Len(bsf.screens) = 2
    /\ bsf.screens[1].space # <<>> /\ bsf.screens[2].space # <<>>
    /\ AreaAsI64(bsf.screens[2].frame, BsfFrame) > 0
    /\ AreaAsI64(bsf.screens[1].frame, BsfFrame) > AreaAsI64(bsf.screens[2].frame, BsfFrame)
    /\ bsf.result = bsf.screens[1].space

\* C12: for a window frame lying fully inside exactly one screen, best_space_for_frame
\* returns that screen's space.
C12_FrameInsideOneScreenGetsItsSpace ==
    BsfResolved =>
        \A i \in DOMAIN bsf.screens :
            (/\ InsideRect(BsfFrame, bsf.screens[i].frame)
             /\ \A j \in DOMAIN bsf.screens \ {i} : ~InsideRect(BsfFrame, bsf.screens[j].frame))
            => bsf.result = bsf.screens[i].space

\* a frame less than one square point large, inside the second of two screens
C12_Witness ==
    /\ BsfResolved
    /\ Len(bsf.screens) = 2
    /\ bsf.screens[1].space # <<>> /\ bsf.screens[2].space # <<>>
    /\ InsideRect(BsfFrame, bsf.screens[2].frame)
    /\ ~InsideRect(BsfFrame, bsf.screens[1].frame)
    /\ AreaAsI64(bsf.screens[2].frame, BsfFrame) = 0
    /\ bsf.result = bsf.screens[2].space

(***************************************************************************)
(* Claims about the scrolling layout's scroll offset (SpecScroll).         *)
(***************************************************************************)
ScScrolled == sc_last.op = "scroll_by_delta" /\ sc_last.applied
ScSnapped == sc_last.op = "snap_to_nearest_column" /\ sc_last.applied
ScStartSet(L) == Range(CachedStarts(L, sc_settings))

\* C13: after each scroll_by_delta call the stored scroll offset lies within
\* [min_offset, max_offset] as computed from the current column geometry, both bounds
\* shifted by the centre offset while a centre override is active.
C13_OffsetWithinBoundsAfterScroll ==
    ScScrolled =>
        /\ MinOffset(sc) <= sc.scroll_offset_px
        /\ sc.scroll_offset_px <= MaxOffset(sc, CachedStarts(sc, sc_settings))

\* a scroll under a centre override that was stopped at the shifted upper bound
C13_Witness ==
    /\ ScScrolled
    /\ sc.center_override_window # None /\ sc.last_center_offset_delta_px # 0
    /\ Len(sc.columns) = 2
    /\ sc.overscroll_accumulation > 0
    /\ sc.scroll_offset_px = MaxOffset(sc, CachedStarts(sc, sc_settings))

\* the step is a scroll_by_delta with a negative delta, made with the offset at the left bound
ScLeftBoundaryCall ==
    /\ sc_last'.op = "scroll_by_delta" /\ sc_last'.applied /\ sc_last'.arg < 0
    /\ sc.scroll_offset_px = MinOffset(sc)
\* the overscroll of such a call is the whole delta; with it, the accumulated overscroll
ScAccumulated == sc.overscroll_accumulation + ((0 - sc_last'.arg) * AccumScale) \div 2

C15_SnapLandsOnNearestColumnStart ==
    [][(sc_last'.op = "snap_to_nearest_column" /\ sc_last'.applied) =>
            /\ sc'.scroll_offset_px \in ScStartSet(sc)
            /\ \A s \in ScStartSet(sc) :
                    AbsDiff(sc'.scroll_offset_px, sc.scroll_offset_px)
                        <= AbsDiff(s, sc.scroll_offset_px)]_vars

\* C15, amended: when the layout has columns and has been laid out, snap_to_nearest_column
\* leaves the scroll offset equal to baseline + s, where baseline is the centre offset
\* while a centre override is active and zero otherwise, and s is a column start nearest
\* to (the offset before the call - baseline).
C15_SnapLandsOnNearestShiftedStart ==
    [][(sc_last'.op = "snap_to_nearest_column" /\ sc_last'.applied) =>
            /\ (sc'.scroll_offset_px - MinOffset(sc)) \in ScStartSet(sc)
            /\ \A s \in ScStartSet(sc) :
                    AbsDiff(sc'.scroll_offset_px, sc.scroll_offset_px)
                        <= AbsDiff(s + MinOffset(sc), sc.scroll_offset_px)]_vars

\* a snap under a centre override: the offset is a shifted column start and no column start
C15_Witness ==
    /\ ScSnapped
    /\ sc.center_override_window # None /\ MinOffset(sc) # 0
    /\ Len(sc.columns) = 2
    /\ (sc.scroll_offset_px - MinOffset(sc)) \in ScStartSet(sc)
    /\ sc.scroll_offset_px \notin ScStartSet(sc)
    /\ sc.scroll_offset_px # MinOffset(sc)

(***************************************************************************)
(* Claims about the order of the master and stack containers.              *)
(***************************************************************************)
Reverse(s) == [i \in 1..Len(s) |-> s[Len(s) + 1 - i]]
\* the windows of a layout in the order they were added (SpecMasterStackFill adds w1, w2, w3)
MsInsertionOrder(l) == SeqKeep(MsWindowOrder, Range(AllWindowsInLayout(ms_layouts[l])))
MsOnlyAdded == ms_last.op \in {"new", "mutation"}
MsMasterLen(l) == Min(ms_settings.master_count, Len(MsInsertionOrder(l)))

\* C16 as stated: windows added in order to an empty layout with master_count = k leave
\* master = the first min(k, n) windows in insertion order and stack = the remaining
\* windows in insertion order.
C16_FillKeepsInsertionOrder ==
    MsOnlyAdded =>
        \A l \in LayoutIds :
            Live(l) =>
                /\ MasterOf(ms_layouts[l], ms_settings)
                        = SubSeq(MsInsertionOrder(l), 1, MsMasterLen(l))
                /\ StackOf(ms_layouts[l], ms_settings)
                        = SubSeq(MsInsertionOrder(l), MsMasterLen(l) + 1, Len(MsInsertionOrder(l)))

\* the containers after n adds: every add puts the window at the front of its container
MsFilledNewestFirst(l) ==
    LET ws == MsInsertionOrder(l)
        n == Len(ws)
        k == MsMasterLen(l)
        m == MasterOf(ms_layouts[l], ms_settings)
        st == StackOf(ms_layouts[l], ms_settings)
    IN  IF ms_settings.new_window_placement = "Stack"
        THEN m = Reverse(SubSeq(ws, 1, k)) /\ st = Reverse(SubSeq(ws, k + 1, n))
        ELSE m = Reverse(SubSeq(ws, n - k + 1, n)) /\ st = Reverse(SubSeq(ws, 1, n - k))

\* the step raises master_count by one
MsRaisedByOne ==
    /\ ms_last'.op = "adjust_master_count"
    /\ ms_settings'.master_count = ms_settings.master_count + 1

\* C16, amended: windows added in order to an empty layout with master_count = k go to the
\* front of their container: under placement Stack master holds the first min(k, n)
\* windows added and stack the later ones, otherwise master holds the last min(k, n)
\* windows added and stack the earlier ones, each container newest first; raising
\* master_count by one then moves the head of the stack to the end of master.
C16_FillPutsNewestFirst ==
    /\ [](MsOnlyAdded => \A l \in LayoutIds : Live(l) => MsFilledNewestFirst(l))
    /\ [][MsRaisedByOne =>
            \A l \in LayoutIds :
                (Live(l) /\ StackOf(ms_layouts[l], ms_settings) # <<>>) =>
                    /\ MasterOf(ms_layouts'[l], ms_settings')
                            = Append(MasterOf(ms_layouts[l], ms_settings),
                                     Head(StackOf(ms_layouts[l], ms_settings)))
                    /\ StackOf(ms_layouts'[l], ms_settings')
                            = Tail(StackOf(ms_layouts[l], ms_settings))]_vars

\* k = 1, n = 3, then master_count raised to 2: master [w3, w2], stack [w1]
C16_Witness ==
    /\ ms_last.op = "adjust_master_count" /\ ms_settings.master_count = 2
    /\ \E l \in LayoutIds :
            /\ Live(l)
            /\ MasterOf(ms_layouts[l], ms_settings) = <<"w3", "w2">>
            /\ StackOf(ms_layouts[l], ms_settings) = <<"w1">>

\* C17: the transfers made by enforce_master_count preserve relative order: an underflow
\* takes windows from the head of the stack, in stack order, to the end of master; an
\* overflow puts the demoted windows, in their master order, at the front of the stack;
\* the windows that stay in the stack keep their relative order.  Observed where
\* adjust_master_count normalizes the layouts.
C17_TransfersPreserveOrder ==
    [][ms_last'.op = "adjust_master_count" =>
        \A l \in LayoutIds :
            (Live(l) /\ ValidStructure(ms_layouts[l])) =>
                LET m == MasterOf(ms_layouts[l], ms_settings)
                    st == StackOf(ms_layouts[l], ms_settings)
                    m2 == MasterOf(ms_layouts'[l], ms_settings')
                    st2 == StackOf(ms_layouts'[l], ms_settings')
                IN  IF Len(m2) >= Len(m)
                    THEN /\ m2 = m \o SubSeq(st, 1, Len(m2) - Len(m))
                         /\ st2 = SubSeq(st, Len(m2) - Len(m) + 1, Len(st))
                    ELSE /\ m2 = SubSeq(m, 1, Len(m2))
                         /\ st2 = SubSeq(m, Len(m2) + 1, Len(m)) \o st]_vars

\* master_count lowered to 1 over a layout of three windows: one in master, the demoted
\* window and the window that stayed in the stack
C17_Witness ==
    /\ ms_last.op = "adjust_master_count" /\ ms_settings.master_count = 1
    /\ \E l \in LayoutIds :
            /\ Live(l) /\ ValidStructure(ms_layouts[l])
            /\ Len(MasterOf(ms_layouts[l], ms_settings)) = 1
            /\ Len(StackOf(ms_layouts[l], ms_settings)) = 2

(***************************************************************************)
(* Claims about the display history.                                       *)
(***************************************************************************)
\* display u is not among the screens before the step and the step's screen update brings
\* it back showing space b, in a snapshot where every screen shows a space, no two the same
DhReconnects(u, b) ==
    /\ dh_last'.op = "screen_parameters_changed"
    /\ u \notin DhUuidSet(dh.screens)
    /\ \E i \in DOMAIN dh'.screens : dh'.screens[i] = DhScreen(u, b)
    /\ \A i \in DOMAIN dh'.screens : dh'.screens[i].space # None
    /\ ~HasDuplicateSpaces(DhSpaceSeq(dh'.screens))

\* C18: if a display was last seen showing space A, is disconnected, and later reconnects
\* reporting space B, then the state that was stored under A is present under B.  (A is
\* a space no other display has shown, and nothing is stored under B yet.)
C18_ReconnectRestoresState ==
    [][\A u \in DhUuids, a \in DhSpaces, b \in DhSpaces :
            (/\ DhReconnects(u, b)
             /\ dh_last.shown[u] = a /\ a # b
             /\ \A v \in DhUuids \ {u} : dh_last.shown[v] # a
             /\ dh.engine.store[a] # None /\ dh.engine.store[b] = None)
            => dh'.engine.store[b] = dh.engine.store[a]]_vars

(***************************************************************************)
(* Claims about the windows of a scrolling layout.                         *)
(***************************************************************************)
\* C19: within any layout every tiled window occupies at most one position of one column:
\* no sequence of add, remove, move, float-toggle or workspace-move operations leaves the
\* same WindowId in a layout twice.
C19_WindowAtMostOncePerLayout ==
    \A ws \in TlWorkspaces, wid \in TlWindows :
        Cardinality(TlPositions(tl.layout[ws], wid)) <= 1

(***************************************************************************)
(* Claims about the active-space set.                                      *)
(***************************************************************************)
\* C20: whenever the active-space set changes, its new value is the activation policy's
\* result computed from the raw per-screen space assignments, one entry per known screen.
C20_ActiveSpacesFromRawAssignments ==
    [][rx'.active_spaces # rx.active_spaces =>
            rx'.active_spaces
                = Range(ComputeActiveSpaces(RawSpacesForCurrentScreens(rx'))) \ {None}]_vars


(***************************************************************************)
(* Claims about failed workspace assignments.                              *)
(***************************************************************************)
\* the window is in the tree of some workspace
IsTiled(E, w) == \E ws \in Workspaces : InTree(E, ws, w)
\* a step on which the assignment of window w to a workspace is refused
AssignmentFails(w) ==
    \/ \E space \in EngSpaces, index \in 1..2, maybe_id \in {w, None} :
            /\ maybe_id = None => eng.focused = w
            /\ CmdMoveWindowToWorkspace(space, index, maybe_id, FALSE)
    \/ \E source_space, target_space \in EngSpaces :
            CallMoveWindowToSpace(source_space, target_space, w, FALSE)
    \/ \E space \in EngSpaces :
            EvWindowsOnScreenUpdated(space, EngPidOf(w), TRUE,
                [kind |-> "auto_err", ws |-> None, floating |-> FALSE, prev |-> FALSE])

\* C21: when assigning a window to a workspace fails (app rules, MoveWindowToWorkspace,
\* move_window_to_space), the window keeps the floating/tiled state it had: it is
\* floating afterwards exactly if it was floating, and a window that was in a tiling
\* tree is still in one, so it is never left outside every tree and the floating set.
C21_FailedAssignmentKeepsWindowPlaced ==
    [][\A w \in EngWindows :
            AssignmentFails(w) =>
                /\ (w \in eng'.floating) = (w \in eng.floating)
                /\ IsTiled(eng, w) => IsTiled(eng', w)]_vars


(***************************************************************************)
(* Claims about the drag state machine.                                    *)
(***************************************************************************)
\* C22: a drag session, once created, is destroyed (the drag state returns to Inactive)
\* only by mouse-up or by the swap commit made at mouse-up; no handling of a frame change
\* while the mouse button is still down ends the session.
C22_SessionEndsOnlyAtMouseUp ==
    [][(dg.drag_state # "Inactive" /\ dg'.drag_state = "Inactive")
            => dg_last'.op = "MouseUp"]_vars

\* C23: whenever a MouseUp event is taken from the queue while a drag session exists, the
\* session is destroyed and the drag state is Inactive once the event has been handled,
\* whatever the topology manager's state at that moment.
C23_MouseUpEndsSession ==
    [][(dg_last'.op = "MouseUp" /\ dg.drag_state # "Inactive")
            => (dg'.drag_state = "Inactive" /\ dg'.session = <<>>)]_vars

\* the drag state changes the spec's state machine lists
StatedDragEdges ==
    {<<"Inactive", "Active">>, <<"Active", "PendingSwap">>, <<"PendingSwap", "Inactive">>,
     <<"Active", "Inactive">>}
\* every change of the drag state a step makes, through the state its handler passes, is
\* one of `edges`
DragStepAlong(edges) ==
    /\ dg.drag_state # dg_last'.mid => <<dg.drag_state, dg_last'.mid>> \in edges
    /\ dg_last'.mid # dg'.drag_state => <<dg_last'.mid, dg'.drag_state>> \in edges

\* C24 as stated: the drag state changes only along Inactive -> Active -> PendingSwap ->
\* Inactive (and Active -> Inactive on a mouse-up without swap target): PendingSwap is
\* entered only from Active and is left only to Inactive.
C24_PendingSwapLeftOnlyToInactive == [][DragStepAlong(StatedDragEdges)]_vars

\* C24, amended: the drag state changes only along Inactive -> Active, Active ->
\* PendingSwap, PendingSwap -> Active (a later frame change finds the overlap ended and
\* the session goes on without target), and Active -> Inactive or PendingSwap ->
\* Inactive; PendingSwap is entered only from Active.
C24_DragStateEdges ==
    [][DragStepAlong(StatedDragEdges \cup {<<"PendingSwap", "Active">>})]_vars

\* A frame change has taken a pending swap back to an active session that kept its
\* window, origin and settled space.
C24_Witness ==
    /\ dg_last.op = "WindowFrameChanged" /\ ~dg_last.dropped
    /\ dg_last.mid = "PendingSwap"
    /\ dg.drag_state = "Active"
    /\ dg.session[1].window = "w1"
    /\ dg.swap.last_target = None

\* C25: while a drag is in progress, recording a swap target (entering PendingSwap)
\* changes no layout tree; the trees change only while a mouse-up is handled, and that is
\* when the dragged window and the target, standing in one tree, exchange their positions.
C25_SwapDeferredToMouseUp ==
    [][/\ (dg_last'.op = "WindowFrameChanged" /\ dg'.drag_state = "PendingSwap")
            => dg'.tree = dg.tree
       /\ dg'.tree # dg.tree => (dg_last'.op = "MouseUp" /\ ~dg_last'.dropped)
       /\ "SwapWindows" \in Range(dg_last'.log)
            => \A s \in DgSpaces :
                    dg'.tree[s] = IF {dg.session[1].window, dg.target} \subseteq Range(dg.tree[s])
                                  THEN SwapIn(dg.tree[s], dg.session[1].window, dg.target)
                                  ELSE dg.tree[s]]_vars

\* A mouse-up has committed a pending swap: the two windows stand in exchanged order.
C25_Witness ==
    /\ dg_last.op = "MouseUp" /\ ~dg_last.dropped
    /\ dg_last.mid = "PendingSwap"
    /\ dg_last.log = <<"SwapWindows">>
    /\ dg.tree["s1"] = <<"w2", "w1">>

\* the place of x in s, 0 if absent
LogIndex(s, x) == IF x \in Range(s) THEN CHOOSE i \in DOMAIN s : s[i] = x ELSE 0

SpaceUnderCentre(frame) == DragSpaceCandidate(frame)

\* C27 as stated: while a drag is in progress, after each frame update for the dragged
\* window the session's settled space is the space of the screen under the newest
\* frame's centre when there is one.
C27_SettledSpaceUnderCentre ==
    [][(/\ dg_last'.op = "WindowFrameChanged" /\ ~dg_last'.dropped
        /\ dg'.session # <<>>
        /\ SpaceUnderCentre(dg'.frames[dg'.session[1].window]) # <<>>)
       => dg'.session[1].settled_space
            = SpaceUnderCentre(dg'.frames[dg'.session[1].window])]_vars

\* C27, amended: while the drag state is Active (no swap is pending), after each frame
\* update for the dragged window with a frame of positive area the session's settled
\* space is the space of the screen under the frame's centre when there is one, not the
\* origin space; a frame without area leaves a settled space as it was.
C27_SettledSpaceFollowsFrame ==
    [][(/\ dg_last'.op = "WindowFrameChanged" /\ ~dg_last'.dropped
        /\ dg_last'.mid = "Active"
        /\ dg'.session # <<>>)
       => LET s == dg'.session[1]
              frame == dg'.frames[s.window]
          IN  /\ s.last_frame = frame
              /\ (DgArea(frame) > 0 /\ SpaceUnderCentre(frame) # <<>>)
                    => s.settled_space = SpaceUnderCentre(frame)
              /\ (DgArea(frame) <= 0 /\ dg.session # <<>>)
                    => s.settled_space = dg.session[1].settled_space]_vars

\* The dragged window's frame went to the other display and the active session's settled
\* space followed it, away from the origin space.
C27_Witness ==
    /\ dg_last.op = "WindowFrameChanged" /\ ~dg_last.dropped
    /\ dg.drag_state = "Active"
    /\ dg.session[1].origin_space = <<"s1">>
    /\ dg.session[1].settled_space = <<"s2">>
    /\ SpaceUnderCentre(dg.frames["w1"]) = <<"s2">>


(***************************************************************************)
(* Claims about the topology commit.                                       *)
(***************************************************************************)
\* the places of `what` in the commit's log
LogPlaces(log, what) == {i \in DOMAIN log : log[i] = what}

\* C28: every window-server appear / destroy / resync event quarantined during a churn is
\* replayed (handled by the Reactor) once the churn resolves: the commit that ends the
\* churn replays as many events as were held back, after the synthesized appear and
\* destroy events and before the forced refresh and the return to Stable.
C28_QuarantinedEventsReplayed ==
    [][(rx_last'.commit.done /\ rx.quarantined > 0)
            => LET log == rx_last'.commit.log IN
               /\ Cardinality(LogPlaces(log, "replay")) = rx.quarantined
               /\ \A i \in LogPlaces(log, "replay") :
                    /\ \A j \in LogPlaces(log, "appeared") \cup LogPlaces(log, "destroyed") :
                            j < i
                    /\ \A j \in LogPlaces(log, "force_refresh_all_windows")
                                    \cup LogPlaces(log, "mark_stable") : i < j]_vars


\* the screen list is non-empty and every screen has a space
ScreensComplete(R) ==
    /\ R.screens # <<>>
    /\ \A i \in DOMAIN R.screens : R.screens[i] # None

\* C29: the topology state goes from AwaitingCommit to Stable only while a screen or
\* space update is handled after which the screen list is non-empty and every screen has
\* a space; an update after which that is not so leaves the state AwaitingCommit, and as
\* long as the state stays AwaitingCommit the pre-churn window-server-id snapshot is
\* retained unchanged.
C29_CommitOnlyOnCompleteSnapshot ==
    [][rx.topology = "AwaitingCommit"
            => /\ rx'.topology = "Stable"
                    => /\ rx_last'.kind \in {"ScreenParametersChanged", "SpaceChanged"}
                       /\ ScreensComplete(rx')
                       /\ rx_last'.commit.done
                       /\ rx_last'.commit.pre = rx.pre_known_wsids
               /\ (rx_last'.kind \in {"ScreenParametersChanged", "SpaceChanged"}
                        /\ ~ScreensComplete(rx'))
                    => rx'.topology = "AwaitingCommit"
               /\ rx'.topology = "AwaitingCommit"
                    => rx'.pre_known_wsids = rx.pre_known_wsids]_vars

\* A screen update that left a screen without space was handled while a commit was
\* awaited: the state is still AwaitingCommit and the snapshot of known ids is kept.
C29_Witness ==
    /\ rx_last.kind = "ScreenParametersChanged"
    /\ rx.topology = "AwaitingCommit"
    /\ ~ScreensComplete(rx)
    /\ rx.screens # <<>>
    /\ rx.pre_known_wsids # {}
    /\ ~rx_last.commit.done


\* C30: the first non-empty display set reported after process start is not treated as a
\* topology transition: the screen update that brings it sets no pending topology
\* relayout and remaps no space (the per-space state stays where it is, and the display
\* tables record exactly the spaces the new screens show), whatever screen updates, empty
\* ones included, were handled before.
C30_FirstDisplaySetIsNoTransition ==
    [][(/\ dh_last'.op = "screen_parameters_changed"
        /\ ~dh.has_seen_display_set
        /\ dh'.screens # <<>>)
            => /\ ~dh'.topology_relayout_pending
               /\ dh'.engine.store = dh.engine.store
               /\ \A u \in DhUuids :
                    dh'.engine.display_last_space[u] = dh_last'.shown[u]]_vars

\* A first display set has been handled: two displays with their spaces are on record,
\* no topology relayout is pending and no per-space state was moved.
C30_Witness ==
    /\ dh_last.op = "screen_parameters_changed"
    /\ dh.has_seen_display_set
    /\ Len(dh.screens) = 2
    /\ \A i \in DOMAIN dh.screens : dh.screens[i].space # None
    /\ dh.screens[1].space # dh.screens[2].space
    /\ ~dh.topology_relayout_pending
    /\ dh.engine.store = [s \in DhSpaces |-> None]


(***************************************************************************)
(* Claims about full-screen spaces and Mission Control.                    *)
(***************************************************************************)
\* C31: when every entry of an incoming space vector is a full-screen space, handling
\* that vector leaves the screens' space assignments, the active-space set and the layout
\* unchanged: no field of the Reactor changes, no window table is refreshed, no space is
\* exposed to the layout engine and no topology commit is made (the only thing that may
\* follow is the layout update that ends every event).
C31_FullscreenVectorChangesNothing ==
    [][(/\ rx_last'.kind = "SpaceChanged"
        /\ rx_last'.spaces # <<>>
        /\ \A i \in DOMAIN rx_last'.spaces : rx_last'.spaces[i] = FullscreenSpace)
            => /\ rx'.screens = rx.screens
               /\ rx'.active_spaces = rx.active_spaces
               /\ rx' = rx
               /\ rx_last'.out \subseteq {"layout"}
               /\ ~rx_last'.commit.done]_vars

\* A vector naming only the full-screen space arrived for a display that shows the active
\* user space "s1" (it is neither too long nor a duplicate): the display still shows "s1".
C31_Witness ==
    /\ rx_last.kind = "SpaceChanged"
    /\ rx_last.spaces = <<FullscreenSpace>>
    /\ rx_last.len = "equal"
    /\ rx.screens = <<"s1">>
    /\ rx.active_spaces = {"s1"}
    /\ ~rx.mission_control_active


\* a step has applied the queued vector v: the queue is empty, v is as long as the screen
\* list, and every screen for which v names a space shows that space
PendingApplied(v) ==
    /\ rx'.pending_space_change = <<>>
    /\ Len(v) = Len(rx'.screens)
    /\ \A i \in DOMAIN v : v[i] # None => rx'.screens[i] = v[i]

\* handle_space_changed's tests that come before the Mission Control test
DroppedBeforeQueue(R, spaces) ==
    \/ Len(spaces) > Len(R.screens)
    \/ spaces = R.screens /\ ~R.topology_relayout_pending /\ R.topology = "Stable"
    \/ R.topology_relayout_pending /\ Len(spaces) # Len(R.screens)
    \/ spaces # <<>> /\ \A i \in DOMAIN spaces : spaces[i] = FullscreenSpace

TiedExactly ==
    {i \in DOMAIN bsf.screens :
        /\ bsf.screens[i].space # <<>>
        /\ IntersectionArea4(bsf.screens[i].frame, BsfFrame) > 0
        /\ \A j \in DOMAIN bsf.screens :
              bsf.screens[j].space # <<>> =>
                  IntersectionArea4(bsf.screens[j].frame, BsfFrame)
                      <= IntersectionArea4(bsf.screens[i].frame, BsfFrame)}

\* the same in whole square points, one square point at least
TiedInPoints ==
    {i \in DOMAIN bsf.screens :
        /\ bsf.screens[i].space # <<>>
        /\ AreaAsI64(bsf.screens[i].frame, BsfFrame) > 0
        /\ \A j \in DOMAIN bsf.screens :
              bsf.screens[j].space # <<>> =>
                  AreaAsI64(bsf.screens[j].frame, BsfFrame)
                      <= AreaAsI64(bsf.screens[i].frame, BsfFrame)}

\* C33 as stated: when no screen contains the frame's centre and two or more screens have
\* exactly equal maximal intersection area with the frame, best_space_for_frame returns
\* the space of the first such screen in iteration order.
C33_FirstScreenWinsTie ==
    (/\ BsfResolved
     /\ \A i \in DOMAIN bsf.screens :
            ~ContainsMid(bsf.screens[i].frame, Mid2(BsfFrame), bsf.closed)
     /\ Cardinality(TiedExactly) >= 2
     /\ \A i \in TiedExactly : AreaAsI64(bsf.screens[i].frame, BsfFrame) > 0)
        => bsf.result = bsf.screens[MinOf(TiedExactly)].space

\* C33, amended: when no screen that has a space contains the frame's centre and two or
\* more screens have equal maximal intersection area with the frame in whole square
\* points (one at least), best_space_for_frame returns the space of the last such screen
\* in iteration order.
C33_LastScreenWinsTie ==
    (/\ BsfResolved
     /\ ~CentreInSpacedScreen
     /\ Cardinality(TiedInPoints) >= 2)
        => bsf.result = bsf.screens[MaxOf(TiedInPoints)].space

\* the frame's centre is in neither screen, both intersections are exactly one square
\* point large, and the second screen's space is returned
C33_Witness ==
    /\ BsfResolved
    /\ ~CentreInSpacedScreen
    /\ TiedExactly = {1, 2}
    /\ IntersectionArea4(bsf.screens[1].frame, BsfFrame) = 4
    /\ bsf.result = bsf.screens[2].space
    /\ bsf.result # bsf.screens[1].space


(***************************************************************************)
(* Claims about raise requests and workspace switches                      *)
(* (SpecLayoutResponse).                                                   *)
(***************************************************************************)
\* the windows of a raise request that the response itself named
ForwardedRaise(q) == q.raise_windows \cap q.response.raise_windows
ForwardedFocus(q) ==
    IF q.focus_window # None /\ q.focus_window = q.response.focus_window
    THEN {q.focus_window} ELSE {}

KnownOnActiveSpace(w) ==
    /\ w \in DOMAIN LrWindowTable
    /\ LrWindowTable[w].space \in lr.active_spaces

SnapshotHasWindow(w) ==
    /\ LrWindowTable[w].sys_id # <<>>
    /\ LrWindowTable[w].sys_id[1] \in lr.visible_windows

\* C34 as stated: a focus window or raise window from an EventResponse is forwarded to
\* the raise executor only if the window is known to be on an active space and, when no
\* workspace switch is in progress, its window-server id is in the latest visible-window
\* snapshot.
C34_ForwardedOnlyIfActiveAndVisible ==
    \A n \in DOMAIN lr_last.requests :
        \A w \in ForwardedRaise(lr_last.requests[n]) \cup ForwardedFocus(lr_last.requests[n]) :
            /\ KnownOnActiveSpace(w)
            /\ ~lr_last.requests[n].switching => SnapshotHasWindow(w)

\* C34, amended: a focus window or raise window from an EventResponse is forwarded to the
\* raise executor only if the window is known to be on an active space; a focus window
\* that has a window-server id is, when no workspace switch is in progress, forwarded
\* only if that id is in the latest visible-window snapshot.  Raise windows are not
\* tested against the snapshot.
C34_ForwardedOnlyIfActiveFocusVisible ==
    \A n \in DOMAIN lr_last.requests :
        /\ \A w \in ForwardedRaise(lr_last.requests[n]) \cup ForwardedFocus(lr_last.requests[n]) :
                KnownOnActiveSpace(w)
        /\ \A w \in ForwardedFocus(lr_last.requests[n]) :
                (~lr_last.requests[n].switching /\ LrWindowTable[w].sys_id # <<>>)
                    => SnapshotHasWindow(w)

\* with no switch in progress, a response that names the visible window "w1" as focus
\* window and as raise window was forwarded whole, "s1" being active
C34_Witness ==
    /\ Len(lr_last.requests) = 1
    /\ ~lr_last.requests[1].switching
    /\ lr_last.requests[1].response = EventResponse({"w1", "w3"}, "w1")
    /\ lr_last.requests[1].raise_windows = {"w1"}
    /\ lr_last.requests[1].focus_window = "w1"
    /\ "x1" \in lr.visible_windows
    /\ "s1" \in lr.active_spaces


\* C38: after the Reactor has finished handling any event, the workspace-switch state
\* is Inactive: a switch started while handling an event is marked inactive by the end of
\* that same event's processing, in every topology state.
C38_SwitchInactiveBetweenEvents ==
    lr.workspace_switch_state = "Inactive"


(***************************************************************************)
(* Claims about the churn announcements of the notification layer          *)
(* (SpecNotification).                                                     *)
(***************************************************************************)
SentBy(last, what) == \E i \in DOMAIN last.sent : last.sent[i] = what

\* C35: the notification layer emits DisplayChurnBegin and DisplayChurnEnd strictly
\* alternately, starting with Begin: a handler sends Begin exactly when it takes the churn
\* from inactive to active and End exactly when it takes it from active to inactive, so
\* that between two Begins there is an End and between two Ends a Begin.
C35_BeginAndEndAlternate ==
    [][/\ nc_last' # nc_last =>
            /\ SentBy(nc_last', "DisplayChurnBegin")
                    <=> (~display_churn_active /\ display_churn_active')
            /\ SentBy(nc_last', "DisplayChurnEnd")
                    <=> (display_churn_active /\ ~display_churn_active')
       /\ nc_last' = nc_last => display_churn_active' = display_churn_active]_vars

\* a second churn has been announced, after the first one was ended
C35_Witness ==
    /\ SentBy(nc_last, "DisplayChurnBegin")
    /\ display_churn_active
    /\ display_churn_epoch = 3
    /\ [epoch |-> 3, attempt |-> 0] \in stabilize_timers


\* C36: once display-reconfiguration callbacks stop arriving, the stabilization re-check
\* chain for the latest epoch ends after at most DISPLAY_STABILIZE_MAX_ATTEMPTS re-checks
\* by sending DisplayChurnEnd: no re-check of the latest epoch carries a higher attempt
\* number, the attempt counter never overflows, and an active churn is ended.
C36_StabilizationEnds ==
    /\ [](\A t \in stabilize_timers :
            t.epoch = display_churn_epoch => t.attempt <= DISPLAY_STABILIZE_MAX_ATTEMPTS)
    /\ [](nc_last.op # "overflow")
    /\ (display_churn_active ~> ~display_churn_active)


(***************************************************************************)
(* Claims about layout recomputation during display churn (SpecReactor).   *)
(***************************************************************************)
\* C37: while the topology manager is churning or awaiting commit, handling an event
\* performs no layout recomputation; the first layout recomputation after
\* DisplayChurnBegin is the one performed by the topology commit.  Stated for the events
\* that do not commit: none of them recomputes the layout.
C37_NoLayoutBeforeCommit ==
    [][(/\ IsChurningOrAwaitingCommit(rx)
        /\ rx_last' # rx_last
        /\ ~rx_last'.commit.done)
            => "layout" \notin rx_last'.out]_vars


\* C39: for the whole of one drag (from the first frame change with the mouse down until
\* mouse-up), the session's dragged window and origin space stay as recorded when the
\* session was created: a frame change handled while a session exists leaves a session
\* with the same window and the same origin space, whether it enters PendingSwap, leaves
\* it or neither.
C39_SessionKeepsWindowAndOrigin ==
    [][(IsInDrag(dg) /\ dg_last'.op = "WindowFrameChanged")
            => /\ IsInDrag(dg')
               /\ dg'.session # <<>>
               /\ dg'.session[1].window = dg.session[1].window
               /\ dg'.session[1].origin_space = dg.session[1].origin_space]_vars


(***************************************************************************)
(* Claim about the direction of accumulated overscroll (SpecScroll).       *)
(***************************************************************************)
\* C40: scroll_by_delta reports a boundary hit in a direction only when the overscroll
\* accumulated in that same direction since the last reset reaches the threshold;
\* overscroll accumulated toward the opposite boundary never counts toward it.
C40_OnlySameDirectionOverscrollCounts ==
    (ScScrolled /\ sc_last.ret # <<>>) =>
        sc_last.tested >= sc_settings.workspace_switch_threshold

=============================================================================
